---------------------------- MODULE Spec2Model ----------------------------
(* Braintree GraphQL transformers of the router crate: the inbound path of  *)
(* every flow (response body -> serde -> TryFrom -> RouterData), with the   *)
(* status and error normalization it uses.                                   *)
EXTENDS Integers, Sequences, FiniteSets, TLC

VARIABLES
    flow,       \* which TryFrom implementation the connector calls
    body,       \* the response body as received: statuses are wire strings
    http_code,  \* item.http_code
    data,       \* item / item.data: the RouterData handed to try_from
    response,   \* item.response: the deserialized body (None until serde ran)
    result,     \* what try_from returned (None until it ran)
    payment_method_data,  \* the PaymentMethodData value being converted
    category,   \* what get_payment_method returned for it
    auth_type,  \* the ConnectorAuthType of a connector account request
    validation, \* what validate_connector_auth_type returned for it
    store,      \* state.store: the tables the admin operations work on
    conf,       \* state.conf: the settings the admin operations read
    calls,      \* the admin calls: the last one, or those under way
    pc          \* the step reached

connector_vars == <<flow, body, http_code, data, response, result>>
domain_vars == <<payment_method_data, category>>
store_vars == <<store, conf, calls>>
admin_vars == <<auth_type, validation, store_vars>>

vars == <<connector_vars, domain_vars, admin_vars, pc>>

-----------------------------------------------------------------------------
(* Option<T>: None is the empty tuple, Some(x) the one-element tuple.       *)
None == <<>>
Some(x) == <<x>>
IsSome(o) == o # None
Unwrap(o) == o[1]
Opt(S) == {None} \cup {Some(x) : x \in S}

\* Vec<T> of at most n entries
VecOf(S, n) == UNION {[1..k -> S] : k \in 0..n}

-----------------------------------------------------------------------------
(* Sizes of the explored inputs.                                             *)

\* Longest errors list explored.
MaxErrors == 2

\* Both sync queries ask the connector for `first: 1` edge.
MaxEdges == 1

Ids == {"id_1", "id_2"}
Messages == {"msg_1", "msg_2"}
LegacyCodes == {"2000"}
HttpCodes == {200, 422}

-----------------------------------------------------------------------------
(* consts::NO_ERROR_CODE / consts::NO_ERROR_MESSAGE                          *)
NO_ERROR_CODE == "no error code"
NO_ERROR_MESSAGE == "no error message"

-----------------------------------------------------------------------------
(* Status enumerations.                                                      *)
BraintreePaymentStatus ==
    {"Authorized", "Authorizing", "AuthorizedExpired", "Failed",
     "ProcessorDeclined", "GatewayRejected", "Voided", "Settling", "Settled",
     "SettlementPending", "SettlementDeclined", "SettlementConfirmed",
     "SubmittedForSettlement"}

BraintreeRefundStatus ==
    {"SettlementPending", "Settling", "Settled", "SubmittedForSettlement",
     "Failed"}


\* enums::AttemptStatus values a RouterData may carry before its response
\* was parsed.
PriorAttemptStatus == {"Started", "Pending"}

\* #[serde(rename_all = "SCREAMING_SNAKE_CASE")]: the wire name of a variant
ScreamingSnakeCase(variant) ==
    CASE variant = "Authorized" -> "AUTHORIZED"
      [] variant = "Authorizing" -> "AUTHORIZING"
      [] variant = "AuthorizedExpired" -> "AUTHORIZED_EXPIRED"
      [] variant = "Failed" -> "FAILED"
      [] variant = "ProcessorDeclined" -> "PROCESSOR_DECLINED"
      [] variant = "GatewayRejected" -> "GATEWAY_REJECTED"
      [] variant = "Voided" -> "VOIDED"
      [] variant = "Settling" -> "SETTLING"
      [] variant = "Settled" -> "SETTLED"
      [] variant = "SettlementPending" -> "SETTLEMENT_PENDING"
      [] variant = "SettlementDeclined" -> "SETTLEMENT_DECLINED"
      [] variant = "SettlementConfirmed" -> "SETTLEMENT_CONFIRMED"
      [] variant = "SubmittedForSettlement" -> "SUBMITTED_FOR_SETTLEMENT"

\* A status string the connector may send that neither enum declares.
UndeclaredStatusStrings == {"SETTLEMENT_HELD"}

PaymentStatusStrings ==
    {ScreamingSnakeCase(v) : v \in BraintreePaymentStatus}
        \cup UndeclaredStatusStrings
RefundStatusStrings ==
    {ScreamingSnakeCase(v) : v \in BraintreeRefundStatus}
        \cup UndeclaredStatusStrings

\* derive(Deserialize) on a unit-variant enum with no #[serde(other)] arm:
\* the variant whose wire name is the string, or an "unknown variant" error.
DeserializeEnum(variants, str) ==
    IF \E v \in variants : ScreamingSnakeCase(v) = str
    THEN Some(CHOOSE v \in variants : ScreamingSnakeCase(v) = str)
    ELSE None

-----------------------------------------------------------------------------
(* Response bodies. Every *Of(St) set is the shape of the struct of the     *)
(* same name with its status leaves drawn from St: wire strings for the      *)
(* body as received, enum variants once serde has deserialized it.           *)
ErrorDetails ==
    [message : Messages, extensions : Opt([legacy_code : Opt(LegacyCodes)])]

ErrorsField == Opt(VecOf(ErrorDetails, MaxErrors))

TransactionBodyOf(St) == [id : Ids, status : St]

AuthChargeCreditCardOf(St) == [transaction : Opt(TransactionBodyOf(St))]

DataAuthResponseOf(St) ==
    [authorize_credit_card : Opt(AuthChargeCreditCardOf(St))]

DataResponseOf(St) == [charge_credit_card : Opt(AuthChargeCreditCardOf(St))]

CaptureResponseDataOf(St) ==
    [capture_transaction : Opt([transaction : Opt(TransactionBodyOf(St))])]

CancelResponseDataOf(St) ==
    [reverse_transaction : Opt([reversal : Opt(TransactionBodyOf(St))])]

BraintreeRefundResponseDataOf(St) ==
    [refund_transaction : Opt([refund : Opt(TransactionBodyOf(St))])]

TokenizeCreditCard ==
    [tokenize_credit_card : Opt([payment_method : Opt([id : Ids])])]

EdgesOf(St) == VecOf([node : TransactionBodyOf(St)], MaxEdges)

PSyncResponseDataOf(St) ==
    [search : Opt([transactions : Opt([edges : EdgesOf(St)])])]

RSyncResponseDataOf(St) ==
    [search : Opt([refunds : Opt([edges : EdgesOf(St)])])]

Flows ==
    {"Authorize", "Charge", "Capture", "Void", "PSync", "Refund", "RSync",
     "Tokenize"}

\* The `data` member of the response struct of flow fl.
DataOf(fl, PSt, RSt) ==
    CASE fl = "Authorize" -> DataAuthResponseOf(PSt)
      [] fl = "Charge" -> DataResponseOf(PSt)
      [] fl = "Capture" -> CaptureResponseDataOf(PSt)
      [] fl = "Void" -> CancelResponseDataOf(PSt)
      [] fl = "PSync" -> PSyncResponseDataOf(PSt)
      [] fl = "Refund" -> BraintreeRefundResponseDataOf(RSt)
      [] fl = "RSync" -> RSyncResponseDataOf(RSt)
      [] fl = "Tokenize" -> TokenizeCreditCard

\* Bodies the transport can hand over / structs serde can produce.
Bodies(fl) ==
    [data : Opt(DataOf(fl, PaymentStatusStrings, RefundStatusStrings)),
     errors : ErrorsField]

Responses(fl) ==
    [data : Opt(DataOf(fl, BraintreePaymentStatus, BraintreeRefundStatus)),
     errors : ErrorsField]

-----------------------------------------------------------------------------
(* serde: the body becomes the typed response, or deserialization fails     *)
(* (None) because a status string names no variant of the field's enum.     *)

\* data.<f1>.<f2>.status of the mutation responses
DeserializeNested(d, f1, f2, variants) ==
    IF d = None \/ d[1][f1] = None \/ d[1][f1][1][f2] = None
    THEN Some(d)
    ELSE LET status == DeserializeEnum(variants, d[1][f1][1][f2][1].status)
         IN  IF status = None
             THEN None
             ELSE Some([d EXCEPT ![1][f1][1][f2][1].status = Unwrap(status)])

\* data.search.<f2>.edges[*].node.status of the sync responses
DeserializeSearch(d, f2, variants) ==
    IF d = None \/ d[1].search = None \/ d[1].search[1][f2] = None
    THEN Some(d)
    ELSE LET edges == d[1].search[1][f2][1].edges
             De(str) == DeserializeEnum(variants, str)
         IN  IF \E i \in DOMAIN edges : De(edges[i].node.status) = None
             THEN None
             ELSE Some([d EXCEPT ![1].search[1][f2][1].edges =
                        [i \in DOMAIN edges |->
                          [node |-> [id |-> edges[i].node.id,
                                     status |->
                                       Unwrap(De(edges[i].node.status))]]]])

DeserializeData(fl, d) ==
    CASE fl = "Authorize" ->
           DeserializeNested(d, "authorize_credit_card", "transaction",
                             BraintreePaymentStatus)
      [] fl = "Charge" ->
           DeserializeNested(d, "charge_credit_card", "transaction",
                             BraintreePaymentStatus)
      [] fl = "Capture" ->
           DeserializeNested(d, "capture_transaction", "transaction",
                             BraintreePaymentStatus)
      [] fl = "Void" ->
           DeserializeNested(d, "reverse_transaction", "reversal",
                             BraintreePaymentStatus)
      [] fl = "PSync" ->
           DeserializeSearch(d, "transactions", BraintreePaymentStatus)
      [] fl = "Refund" ->
           DeserializeNested(d, "refund_transaction", "refund",
                             BraintreeRefundStatus)
      [] fl = "RSync" -> DeserializeSearch(d, "refunds", BraintreeRefundStatus)
      [] fl = "Tokenize" -> Some(d)

DeserializeBody(fl, b) ==
    LET d == DeserializeData(fl, b.data)
    IN  IF d = None
        THEN None
        ELSE Some([data |-> Unwrap(d), errors |-> b.errors])

-----------------------------------------------------------------------------
(* Error normalization.                                                      *)
\* Mutant: unwrap_or_default() in place of the sentinels.
get_error_response_NoSentinel(error_code, error_msg, code) ==
    [kind |-> "Err",
     code |-> IF IsSome(error_code) THEN Unwrap(error_code) ELSE "",
     message |-> IF IsSome(error_msg) THEN Unwrap(error_msg) ELSE "",
     reason |-> None,
     status_code |-> code]

get_error_response(error_code, error_msg, code) ==
    [kind |-> "Err",
     code |-> IF IsSome(error_code) THEN Unwrap(error_code) ELSE NO_ERROR_CODE,
     message |->
        IF IsSome(error_msg) THEN Unwrap(error_msg) ELSE NO_ERROR_MESSAGE,
     reason |-> None,
     status_code |-> code]

\* Mutant: the last entry of the list is taken, not the first.
build_error_response_LastEntry(errors, code) ==
    get_error_response(
        IF Len(errors) > 0 /\ IsSome(errors[Len(errors)].extensions)
        THEN Unwrap(errors[Len(errors)].extensions).legacy_code
        ELSE None,
        IF Len(errors) > 0 THEN Some(errors[Len(errors)].message) ELSE None,
        code)

build_error_response(errors, code) ==
    get_error_response(
        IF Len(errors) > 0 /\ IsSome(errors[1].extensions)
        THEN Unwrap(errors[1].extensions).legacy_code
        ELSE None,
        IF Len(errors) > 0 THEN Some(errors[1].message) ELSE None,
        code)

-----------------------------------------------------------------------------
(* Status normalization tables.                                              *)
\* Mutant: the default arm yields a status outside the canonical set.
AttemptStatusFrom_Unresolved(item) ==
    CASE item \in {"Settling", "Settled"} -> "Charged"
      [] item = "AuthorizedExpired" -> "AuthorizationFailed"
      [] item \in {"Failed", "GatewayRejected", "ProcessorDeclined",
                   "SettlementDeclined"} -> "Failure"
      [] item = "Authorized" -> "Authorized"
      [] item = "Voided" -> "Voided"
      [] OTHER -> "Unresolved"

\* Mutant: the default arm fails the payment.
AttemptStatusFrom_DefaultFailure(item) ==
    CASE item \in {"Settling", "Settled"} -> "Charged"
      [] item = "AuthorizedExpired" -> "AuthorizationFailed"
      [] item \in {"Failed", "GatewayRejected", "ProcessorDeclined",
                   "SettlementDeclined"} -> "Failure"
      [] item = "Authorized" -> "Authorized"
      [] item = "Voided" -> "Voided"
      [] OTHER -> "Failure"

\* Mutant: AuthorizedExpired is listed with the declines.
AttemptStatusFrom_ExpiredAsFailure(item) ==
    CASE item \in {"Settling", "Settled"} -> "Charged"
      [] item \in {"Failed", "GatewayRejected", "ProcessorDeclined",
                   "SettlementDeclined", "AuthorizedExpired"} -> "Failure"
      [] item = "Authorized" -> "Authorized"
      [] item = "Voided" -> "Voided"
      [] OTHER -> "Pending"

AttemptStatusFrom(item) ==
    CASE item \in {"Settling", "Settled"} -> "Charged"
      [] item = "AuthorizedExpired" -> "AuthorizationFailed"
      [] item \in {"Failed", "GatewayRejected", "ProcessorDeclined",
                   "SettlementDeclined"} -> "Failure"
      [] item = "Authorized" -> "Authorized"
      [] item = "Voided" -> "Voided"
      [] OTHER -> "Pending"

\* Mutant: only Settled counts as success, Settling is still pending.
RefundStatusFrom_SettlingPending(item) ==
    CASE item = "Settled" -> "Success"
      [] item \in {"SubmittedForSettlement", "SettlementPending",
                   "Settling"} -> "Pending"
      [] item = "Failed" -> "Failure"

RefundStatusFrom(item) ==
    CASE item \in {"Settled", "Settling"} -> "Success"
      [] item \in {"SubmittedForSettlement", "SettlementPending"} -> "Pending"
      [] item = "Failed" -> "Failure"

-----------------------------------------------------------------------------
(* Success payloads and the two outcomes of try_from.                        *)
TransactionResponse(id) ==
    [kind |-> "Ok",
     variant |-> "TransactionResponse",
     resource_id |-> id,
     redirection_data |-> None,
     mandate_reference |-> None,
     connector_metadata |-> None,
     network_txn_id |-> None,
     connector_response_reference_id |-> None]

RefundsResponseData(id, status) ==
    [kind |-> "Ok",
     variant |-> "RefundsResponseData",
     connector_refund_id |-> id,
     refund_status |-> status]

TokenizationResponse(id) ==
    [kind |-> "Ok", variant |-> "TokenizationResponse", token |-> id]

\* Ok(Self { <fields>, ..item.data }): the RouterData, with the fields the
\* struct expression names, in the order it evaluates them.
Ok(router_data, fields) ==
    [envelope |-> Some(router_data), error |-> None, assigned |-> fields]

\* Err(report): `?` left try_from before any RouterData was built.
Err(connector_error) ==
    [envelope |-> None, error |-> Some(connector_error), assigned |-> <<>>]

ResponseDeserializationFailed == "ResponseDeserializationFailed"
MissingConnectorTransactionID == "MissingConnectorTransactionID"
MissingConnectorRefundID == "MissingConnectorRefundID"

-----------------------------------------------------------------------------
(* The TryFrom implementations, one per response type. item is the          *)
(* ResponseRouterData {response, data, http_code}.                           *)

\* TryFrom<ResponseRouterData<F, BraintreeAuthResponse, ..>> (authorize)
TryFromBraintreeAuthResponse(item) ==
    IF IsSome(item.response.errors)
    THEN Ok([item.data EXCEPT
               !.response = build_error_response(Unwrap(item.response.errors),
                                                 item.http_code)],
            <<"response">>)
    ELSE IF ~IsSome(item.response.data)
    THEN Err(ResponseDeserializationFailed)
    ELSE IF ~IsSome(Unwrap(item.response.data).authorize_credit_card)
    THEN Err(ResponseDeserializationFailed)
    ELSE LET transaction_data ==
                 Unwrap(Unwrap(item.response.data).authorize_credit_card).transaction
         IN  IF ~IsSome(transaction_data)
             THEN Err(ResponseDeserializationFailed)
             ELSE Ok([item.data EXCEPT
                        !.status = AttemptStatusFrom(Unwrap(transaction_data).status),
                        !.response = TransactionResponse(Unwrap(transaction_data).id)],
                     <<"status", "response">>)

\* The charge parser, had it marked the attempt failed on the error path.
TryFromBraintreePaymentsResponse_FailureOnError(item) ==
    IF IsSome(item.response.errors)
    THEN Ok([item.data EXCEPT
               !.status = "Failure",
               !.response = build_error_response(Unwrap(item.response.errors),
                                                 item.http_code)],
            <<"status", "response">>)
    ELSE IF ~IsSome(item.response.data)
    THEN Err(ResponseDeserializationFailed)
    ELSE IF ~IsSome(Unwrap(item.response.data).charge_credit_card)
    THEN Err(ResponseDeserializationFailed)
    ELSE LET transaction_data ==
                 Unwrap(Unwrap(item.response.data).charge_credit_card).transaction
         IN  IF ~IsSome(transaction_data)
             THEN Err(ResponseDeserializationFailed)
             ELSE Ok([item.data EXCEPT
                        !.status = AttemptStatusFrom(Unwrap(transaction_data).status),
                        !.response = TransactionResponse(Unwrap(transaction_data).id)],
                     <<"status", "response">>)

\* TryFrom<ResponseRouterData<F, BraintreePaymentsResponse, ..>> (charge)
TryFromBraintreePaymentsResponse(item) ==
    IF IsSome(item.response.errors)
    THEN Ok([item.data EXCEPT
               !.response = build_error_response(Unwrap(item.response.errors),
                                                 item.http_code)],
            <<"response">>)
    ELSE IF ~IsSome(item.response.data)
    THEN Err(ResponseDeserializationFailed)
    ELSE IF ~IsSome(Unwrap(item.response.data).charge_credit_card)
    THEN Err(ResponseDeserializationFailed)
    ELSE LET transaction_data ==
                 Unwrap(Unwrap(item.response.data).charge_credit_card).transaction
         IN  IF ~IsSome(transaction_data)
             THEN Err(ResponseDeserializationFailed)
             ELSE Ok([item.data EXCEPT
                        !.status = AttemptStatusFrom(Unwrap(transaction_data).status),
                        !.response = TransactionResponse(Unwrap(transaction_data).id)],
                     <<"status", "response">>)

\* The refund parser, had it rebuilt the envelope instead of spreading
\* ..item.data: the request is not carried over.
TryFromBraintreeRefundResponse_DropsRequest(item) ==
    IF IsSome(item.response.errors)
    THEN Ok([item.data EXCEPT
               !.request = "default",
               !.response = build_error_response(Unwrap(item.response.errors),
                                                 item.http_code)],
            <<"response">>)
    ELSE IF ~IsSome(item.response.data)
    THEN Err(ResponseDeserializationFailed)
    ELSE IF ~IsSome(Unwrap(item.response.data).refund_transaction)
    THEN Err(ResponseDeserializationFailed)
    ELSE LET refund_data ==
                 Unwrap(Unwrap(item.response.data).refund_transaction).refund
         IN  IF ~IsSome(refund_data)
             THEN Err(ResponseDeserializationFailed)
             ELSE Ok([item.data EXCEPT
                        !.request = "default",
                        !.response =
                           RefundsResponseData(
                               Unwrap(refund_data).id,
                               RefundStatusFrom(Unwrap(refund_data).status))],
                     <<"response">>)

\* TryFrom<RefundsResponseRouterData<Execute, BraintreeRefundResponse>>
TryFromBraintreeRefundResponse(item) ==
    IF IsSome(item.response.errors)
    THEN Ok([item.data EXCEPT
               !.response = build_error_response(Unwrap(item.response.errors),
                                                 item.http_code)],
            <<"response">>)
    ELSE IF ~IsSome(item.response.data)
    THEN Err(ResponseDeserializationFailed)
    ELSE IF ~IsSome(Unwrap(item.response.data).refund_transaction)
    THEN Err(ResponseDeserializationFailed)
    ELSE LET refund_data ==
                 Unwrap(Unwrap(item.response.data).refund_transaction).refund
         IN  IF ~IsSome(refund_data)
             THEN Err(ResponseDeserializationFailed)
             ELSE Ok([item.data EXCEPT
                        !.response =
                           RefundsResponseData(
                               Unwrap(refund_data).id,
                               RefundStatusFrom(Unwrap(refund_data).status))],
                     <<"response">>)

\* The refund sync parser, had it reported an empty edge list like an absent
\* container.
TryFromBraintreeRSyncResponse_EmptyAsAbsent(item) ==
    IF IsSome(item.response.errors)
    THEN Ok([item.data EXCEPT
               !.response = build_error_response(Unwrap(item.response.errors),
                                                 item.http_code)],
            <<"response">>)
    ELSE IF ~IsSome(item.response.data)
    THEN Err(ResponseDeserializationFailed)
    ELSE IF ~IsSome(Unwrap(item.response.data).search)
    THEN Err(ResponseDeserializationFailed)
    ELSE IF ~IsSome(Unwrap(Unwrap(item.response.data).search).refunds)
    THEN Err(ResponseDeserializationFailed)
    ELSE LET edges ==
                 Unwrap(Unwrap(Unwrap(item.response.data).search).refunds).edges
         IN  IF Len(edges) = 0
             THEN Err(ResponseDeserializationFailed)
             ELSE LET edge_data == edges[1]
                  IN  Ok([item.data EXCEPT
                            !.response =
                               RefundsResponseData(
                                   edge_data.node.id,
                                   RefundStatusFrom(edge_data.node.status))],
                         <<"response">>)

\* TryFrom<RefundsResponseRouterData<RSync, BraintreeRSyncResponse>>
TryFromBraintreeRSyncResponse(item) ==
    IF IsSome(item.response.errors)
    THEN Ok([item.data EXCEPT
               !.response = build_error_response(Unwrap(item.response.errors),
                                                 item.http_code)],
            <<"response">>)
    ELSE IF ~IsSome(item.response.data)
    THEN Err(ResponseDeserializationFailed)
    ELSE IF ~IsSome(Unwrap(item.response.data).search)
    THEN Err(ResponseDeserializationFailed)
    ELSE IF ~IsSome(Unwrap(Unwrap(item.response.data).search).refunds)
    THEN Err(ResponseDeserializationFailed)
    ELSE LET edges ==
                 Unwrap(Unwrap(Unwrap(item.response.data).search).refunds).edges
         IN  IF Len(edges) = 0
             THEN Err(MissingConnectorRefundID)
             ELSE LET edge_data == edges[1]
                  IN  Ok([item.data EXCEPT
                            !.response =
                               RefundsResponseData(
                                   edge_data.node.id,
                                   RefundStatusFrom(edge_data.node.status))],
                         <<"response">>)

\* TryFrom<ResponseRouterData<F, BraintreeTokenResponse, ..>>
TryFromBraintreeTokenResponse(item) ==
    IF IsSome(item.response.errors)
    THEN Ok([item.data EXCEPT
               !.response = build_error_response(Unwrap(item.response.errors),
                                                 item.http_code)],
            <<"response">>)
    ELSE IF ~IsSome(item.response.data)
    THEN Err(MissingConnectorTransactionID)
    ELSE IF ~IsSome(Unwrap(item.response.data).tokenize_credit_card)
    THEN Err(ResponseDeserializationFailed)
    ELSE LET payment_method ==
                 Unwrap(Unwrap(item.response.data).tokenize_credit_card)
                     .payment_method
         IN  IF ~IsSome(payment_method)
             THEN Err(ResponseDeserializationFailed)
             ELSE Ok([item.data EXCEPT
                        !.response =
                           TokenizationResponse(Unwrap(payment_method).id)],
                     <<"response">>)

\* Mutant: the data payload is looked at first, errors only without it.
TryFromBraintreeCaptureResponse_DataFirst(item) ==
    LET transaction_data ==
            IF ~IsSome(item.response.data) THEN None
            ELSE IF ~IsSome(Unwrap(item.response.data).capture_transaction)
            THEN None
            ELSE Unwrap(Unwrap(item.response.data).capture_transaction)
                     .transaction
    IN  IF IsSome(transaction_data)
        THEN Ok([item.data EXCEPT
                   !.status =
                      AttemptStatusFrom(Unwrap(transaction_data).status),
                   !.response =
                      TransactionResponse(Unwrap(transaction_data).id)],
                <<"status", "response">>)
        ELSE IF IsSome(item.response.errors)
        THEN Ok([item.data EXCEPT
                   !.response =
                      build_error_response(Unwrap(item.response.errors),
                                           item.http_code)],
                <<"response">>)
        ELSE Err(ResponseDeserializationFailed)

\* TryFrom<PaymentsCaptureResponseRouterData<BraintreeCaptureResponse>>
TryFromBraintreeCaptureResponse(item) ==
    IF IsSome(item.response.errors)
    THEN Ok([item.data EXCEPT
               !.response = build_error_response(Unwrap(item.response.errors),
                                                 item.http_code)],
            <<"response">>)
    ELSE IF ~IsSome(item.response.data)
    THEN Err(ResponseDeserializationFailed)
    ELSE IF ~IsSome(Unwrap(item.response.data).capture_transaction)
    THEN Err(ResponseDeserializationFailed)
    ELSE LET transaction_data ==
                 Unwrap(Unwrap(item.response.data).capture_transaction).transaction
         IN  IF ~IsSome(transaction_data)
             THEN Err(ResponseDeserializationFailed)
             ELSE Ok([item.data EXCEPT
                        !.status = AttemptStatusFrom(Unwrap(transaction_data).status),
                        !.response = TransactionResponse(Unwrap(transaction_data).id)],
                     <<"status", "response">>)

\* Mutant: the RouterData is updated field by field and handed back as soon
\* as its status is set.
TryFromBraintreeCancelResponse_StatusOnly(item) ==
    IF IsSome(item.response.errors)
    THEN Ok([item.data EXCEPT
               !.response = build_error_response(Unwrap(item.response.errors),
                                                 item.http_code)],
            <<"response">>)
    ELSE IF ~IsSome(item.response.data)
    THEN Err(ResponseDeserializationFailed)
    ELSE IF ~IsSome(Unwrap(item.response.data).reverse_transaction)
    THEN Err(ResponseDeserializationFailed)
    ELSE LET void_data ==
                 Unwrap(Unwrap(item.response.data).reverse_transaction).reversal
         IN  IF ~IsSome(void_data)
             THEN Err(ResponseDeserializationFailed)
             ELSE Ok([item.data EXCEPT
                        !.status = AttemptStatusFrom(Unwrap(void_data).status)],
                     <<"status">>)

\* TryFrom<ResponseRouterData<F, BraintreeCancelResponse, ..>> (void)
TryFromBraintreeCancelResponse(item) ==
    IF IsSome(item.response.errors)
    THEN Ok([item.data EXCEPT
               !.response = build_error_response(Unwrap(item.response.errors),
                                                 item.http_code)],
            <<"response">>)
    ELSE IF ~IsSome(item.response.data)
    THEN Err(ResponseDeserializationFailed)
    ELSE IF ~IsSome(Unwrap(item.response.data).reverse_transaction)
    THEN Err(ResponseDeserializationFailed)
    ELSE LET void_data ==
                 Unwrap(Unwrap(item.response.data).reverse_transaction).reversal
         IN  IF ~IsSome(void_data)
             THEN Err(ResponseDeserializationFailed)
             ELSE Ok([item.data EXCEPT
                        !.status = AttemptStatusFrom(Unwrap(void_data).status),
                        !.response = TransactionResponse(Unwrap(void_data).id)],
                     <<"status", "response">>)

\* TryFrom<ResponseRouterData<F, BraintreePSyncResponse, ..>>
TryFromBraintreePSyncResponse(item) ==
    IF IsSome(item.response.errors)
    THEN Ok([item.data EXCEPT
               !.response = build_error_response(Unwrap(item.response.errors),
                                                 item.http_code)],
            <<"response">>)
    ELSE IF ~IsSome(item.response.data)
    THEN Err(ResponseDeserializationFailed)
    ELSE IF ~IsSome(Unwrap(item.response.data).search)
    THEN Err(ResponseDeserializationFailed)
    ELSE IF ~IsSome(Unwrap(Unwrap(item.response.data).search).transactions)
    THEN Err(ResponseDeserializationFailed)
    ELSE LET edges ==
                 Unwrap(Unwrap(Unwrap(item.response.data).search).transactions).edges
         IN  IF Len(edges) = 0
             THEN Err(MissingConnectorTransactionID)
             ELSE LET edge_data == edges[1]
                  IN  Ok([item.data EXCEPT
                            !.status =
                               AttemptStatusFrom(edge_data.node.status),
                            !.response =
                               TransactionResponse(edge_data.node.id)],
                         <<"status", "response">>)

-----------------------------------------------------------------------------
(* The RouterData handed to the parser: no parser has written response yet. *)
ResponseUnset == [kind |-> "Unset"]

RouterDatas ==
    [status : PriorAttemptStatus,
     response : {ResponseUnset},
     request : {"request"},
     connector_auth_type : {"auth"},
     connector_meta_data : {"meta"}]

Item == [response |-> Unwrap(response), data |-> data, http_code |-> http_code]

\* Nothing of the domain-model and admin operations is under way.
StoreIdle ==
    /\ store = None
    /\ conf = None
    /\ calls = None

OthersIdle ==
    /\ payment_method_data = None
    /\ category = None
    /\ auth_type = None
    /\ validation = None
    /\ StoreIdle

Init ==
    /\ flow \in Flows
    /\ body \in Bodies(flow)
    /\ http_code \in HttpCodes
    /\ data \in RouterDatas
    /\ response = None
    /\ result = None
    /\ pc = "received"
    /\ OthersIdle

\* The body is deserialized into the flow's response struct.
Deserialize ==
    /\ pc = "received"
    /\ response' = DeserializeBody(flow, body)
    /\ pc' = IF response' = None THEN "rejected" ELSE "deserialized"
    /\ UNCHANGED <<flow, body, http_code, data, result>>
    /\ UNCHANGED <<domain_vars, admin_vars>>

\* RouterData::try_from(ResponseRouterData {response, data, http_code}), as
\* each flow's handle_response calls it on the deserialized body.
ParseAuthorize ==
    /\ pc = "deserialized"
    /\ flow = "Authorize"
    /\ result' = Some(TryFromBraintreeAuthResponse(Item))
    /\ pc' = "done"
    /\ UNCHANGED <<flow, body, http_code, data, response>>
    /\ UNCHANGED <<domain_vars, admin_vars>>

ParseCharge ==
    /\ pc = "deserialized"
    /\ flow = "Charge"
    /\ result' = Some(TryFromBraintreePaymentsResponse(Item))
    /\ pc' = "done"
    /\ UNCHANGED <<flow, body, http_code, data, response>>
    /\ UNCHANGED <<domain_vars, admin_vars>>

ParseCapture ==
    /\ pc = "deserialized"
    /\ flow = "Capture"
    /\ result' = Some(TryFromBraintreeCaptureResponse(Item))
    /\ pc' = "done"
    /\ UNCHANGED <<flow, body, http_code, data, response>>
    /\ UNCHANGED <<domain_vars, admin_vars>>

ParseVoid ==
    /\ pc = "deserialized"
    /\ flow = "Void"
    /\ result' = Some(TryFromBraintreeCancelResponse(Item))
    /\ pc' = "done"
    /\ UNCHANGED <<flow, body, http_code, data, response>>
    /\ UNCHANGED <<domain_vars, admin_vars>>

ParsePSync ==
    /\ pc = "deserialized"
    /\ flow = "PSync"
    /\ result' = Some(TryFromBraintreePSyncResponse(Item))
    /\ pc' = "done"
    /\ UNCHANGED <<flow, body, http_code, data, response>>
    /\ UNCHANGED <<domain_vars, admin_vars>>

ParseRefund ==
    /\ pc = "deserialized"
    /\ flow = "Refund"
    /\ result' = Some(TryFromBraintreeRefundResponse(Item))
    /\ pc' = "done"
    /\ UNCHANGED <<flow, body, http_code, data, response>>
    /\ UNCHANGED <<domain_vars, admin_vars>>

ParseRSync ==
    /\ pc = "deserialized"
    /\ flow = "RSync"
    /\ result' = Some(TryFromBraintreeRSyncResponse(Item))
    /\ pc' = "done"
    /\ UNCHANGED <<flow, body, http_code, data, response>>
    /\ UNCHANGED <<domain_vars, admin_vars>>

ParseTokenize ==
    /\ pc = "deserialized"
    /\ flow = "Tokenize"
    /\ result' = Some(TryFromBraintreeTokenResponse(Item))
    /\ pc' = "done"
    /\ UNCHANGED <<flow, body, http_code, data, response>>
    /\ UNCHANGED <<domain_vars, admin_vars>>

Next ==
    \/ Deserialize
    \/ ParseAuthorize
    \/ ParseCharge
    \/ ParseCapture
    \/ ParseVoid
    \/ ParsePSync
    \/ ParseRefund
    \/ ParseRSync
    \/ ParseTokenize

Spec == Init /\ [][Next]_vars

-----------------------------------------------------------------------------
(* A later stage parsing again: the RouterData a parser returned is handed  *)
(* to the flow's parser once more, with the next response of the connector. *)

\* A plain GraphQL answer: a data payload or an errors payload, not both.
PlainBodies(fl) == {b \in Bodies(fl) : b.data = None \/ b.errors = None}

ReparseInit ==
    /\ flow \in Flows
    /\ body \in PlainBodies(flow)
    /\ http_code \in HttpCodes
    /\ data \in RouterDatas
    /\ response = None
    /\ result = None
    /\ pc = "received"
    /\ OthersIdle

\* handle_response called with data = the RouterData the first parse
\* returned (one further parse is followed).
HandBack ==
    /\ pc = "done"
    /\ IsSome(Unwrap(result).envelope)
    /\ data.response = ResponseUnset
    /\ data' = Unwrap(Unwrap(result).envelope)
    /\ body' \in PlainBodies(flow)
    /\ http_code' \in HttpCodes
    /\ response' = None
    /\ result' = None
    /\ pc' = "received"
    /\ UNCHANGED flow
    /\ UNCHANGED <<domain_vars, admin_vars>>

ReparseNext ==
    \/ Next
    \/ HandBack

ReparseSpec == ReparseInit /\ [][ReparseNext]_vars

-----------------------------------------------------------------------------
(* hyperswitch_domain_models::payment_method_data: the canonical            *)
(* PaymentMethodData, its conversion from the public API model and          *)
(* get_payment_method. A value is its variant, the variant of its payload   *)
(* when the payload is an enum (sub), and the card when it is a Card.       *)

\* enum PaymentMethodData
PaymentMethodDataVariants ==
    {"Card", "CardRedirect", "Wallet", "PayLater", "BankRedirect",
     "BankDebit", "BankTransfer", "Crypto", "MandatePayment", "Reward",
     "RealTimePayment", "Upi", "Voucher", "GiftCard", "CardToken",
     "OpenBanking"}

\* The variants of the payload enums of the canonical model.
CardRedirectData ==
    {"Knet", "Benefit", "MomoAtm", "CardRedirect"}
WalletData ==
    {"AliPayQr", "AliPayRedirect", "AliPayHkRedirect", "MomoRedirect",
     "KakaoPayRedirect", "GoPayRedirect", "GcashRedirect", "ApplePay",
     "ApplePayRedirect", "ApplePayThirdPartySdk", "DanaRedirect",
     "GooglePay", "GooglePayRedirect", "GooglePayThirdPartySdk",
     "MbWayRedirect", "MobilePayRedirect", "PaypalRedirect", "PaypalSdk",
     "SamsungPay", "TwintRedirect", "VippsRedirect", "TouchNGoRedirect",
     "WeChatPayRedirect", "WeChatPayQr", "CashappQr", "SwishQr", "Mifinity"}
PayLaterData ==
    {"KlarnaRedirect", "KlarnaSdk", "AffirmRedirect",
     "AfterpayClearpayRedirect", "PayBrightRedirect", "WalleyRedirect",
     "AlmaRedirect", "AtomeRedirect"}
BankRedirectData ==
    {"BancontactCard", "Bizum", "Blik", "Eps", "Giropay", "Ideal",
     "Interac", "OnlineBankingCzechRepublic", "OnlineBankingFinland",
     "OnlineBankingPoland", "OnlineBankingSlovakia", "OpenBankingUk",
     "Przelewy24", "Sofort", "Trustly", "OnlineBankingFpx",
     "OnlineBankingThailand", "LocalBankRedirect"}
BankDebitData ==
    {"AchBankDebit", "SepaBankDebit", "BecsBankDebit", "BacsBankDebit"}
BankTransferData ==
    {"AchBankTransfer", "SepaBankTransfer", "BacsBankTransfer",
     "MultibancoBankTransfer", "PermataBankTransfer", "BcaBankTransfer",
     "BniVaBankTransfer", "BriVaBankTransfer", "CimbVaBankTransfer",
     "DanamonVaBankTransfer", "MandiriVaBankTransfer", "Pix", "Pse",
     "LocalBankTransfer"}
RealTimePaymentData ==
    {"DuitNow", "Fps", "PromptPay", "VietQr"}
UpiData ==
    {"UpiCollect", "UpiIntent"}
VoucherData ==
    {"Boleto", "Efecty", "PagoEfectivo", "RedCompra", "RedPagos",
     "Alfamart", "Indomaret", "Oxxo", "SevenEleven", "Lawson", "MiniStop",
     "FamilyMart", "Seicomart", "PayEasy"}
GiftCardData ==
    {"Givex", "PaySafeCard"}
OpenBankingData ==
    {"OpenBankingPIS"}

\* The payload enum of a variant; the empty set when the payload is a
\* struct (Card, Crypto, CardToken) or there is none (MandatePayment,
\* Reward).
PayloadVariants(variant) ==
    CASE variant = "CardRedirect" -> CardRedirectData
      [] variant = "Wallet" -> WalletData
      [] variant = "PayLater" -> PayLaterData
      [] variant = "BankRedirect" -> BankRedirectData
      [] variant = "BankDebit" -> BankDebitData
      [] variant = "BankTransfer" -> BankTransferData
      [] variant = "RealTimePayment" -> RealTimePaymentData
      [] variant = "Upi" -> UpiData
      [] variant = "Voucher" -> VoucherData
      [] variant = "GiftCard" -> GiftCardData
      [] variant = "OpenBanking" -> OpenBankingData
      [] OTHER -> {}

\* api_models::payments::Card, as From<api_models::payments::Card>
\* destructures it.
ApiCards ==
    [card_number : {"4111111111111111"}, card_exp_month : {"12"},
     card_exp_year : {"2030"}, card_holder_name : {"holder"},
     card_cvc : {"123"}, card_issuer : {None}, card_network : {None},
     card_type : {None}, card_issuing_country : {None}, bank_code : {None},
     nick_name : Opt({"nick"})]

\* impl From<api_models::payments::Card> for Card
CardFrom(value) ==
    [card_number |-> value.card_number,
     card_exp_month |-> value.card_exp_month,
     card_exp_year |-> value.card_exp_year,
     card_cvc |-> value.card_cvc,
     card_issuer |-> value.card_issuer,
     card_network |-> value.card_network,
     card_type |-> value.card_type,
     card_issuing_country |-> value.card_issuing_country,
     bank_code |-> value.bank_code,
     nick_name |-> value.nick_name]

\* The match of each From implementation of a payload enum, arm by arm:
\* the public variant and the canonical variant its arm builds.
CardRedirectDataFrom ==
    [Knet |-> "Knet", Benefit |-> "Benefit", MomoAtm |-> "MomoAtm",
     CardRedirect |-> "CardRedirect"]
WalletDataFrom ==
    [AliPayQr |-> "AliPayQr", AliPayRedirect |-> "AliPayRedirect",
     AliPayHkRedirect |-> "AliPayHkRedirect",
     MomoRedirect |-> "MomoRedirect",
     KakaoPayRedirect |-> "KakaoPayRedirect",
     GoPayRedirect |-> "GoPayRedirect", GcashRedirect |-> "GcashRedirect",
     ApplePay |-> "ApplePay", ApplePayRedirect |-> "ApplePayRedirect",
     ApplePayThirdPartySdk |-> "ApplePayThirdPartySdk",
     DanaRedirect |-> "DanaRedirect", GooglePay |-> "GooglePay",
     GooglePayRedirect |-> "GooglePayRedirect",
     GooglePayThirdPartySdk |-> "GooglePayThirdPartySdk",
     MbWayRedirect |-> "MbWayRedirect",
     MobilePayRedirect |-> "MobilePayRedirect",
     PaypalRedirect |-> "PaypalRedirect", PaypalSdk |-> "PaypalSdk",
     SamsungPay |-> "SamsungPay", TwintRedirect |-> "TwintRedirect",
     VippsRedirect |-> "VippsRedirect",
     TouchNGoRedirect |-> "TouchNGoRedirect",
     WeChatPayRedirect |-> "WeChatPayRedirect",
     WeChatPayQr |-> "WeChatPayQr", CashappQr |-> "CashappQr",
     SwishQr |-> "SwishQr", Mifinity |-> "Mifinity"]
PayLaterDataFrom ==
    [KlarnaRedirect |-> "KlarnaRedirect", KlarnaSdk |-> "KlarnaSdk",
     AffirmRedirect |-> "AffirmRedirect",
     AfterpayClearpayRedirect |-> "AfterpayClearpayRedirect",
     PayBrightRedirect |-> "PayBrightRedirect",
     WalleyRedirect |-> "WalleyRedirect", AlmaRedirect |-> "AlmaRedirect",
     AtomeRedirect |-> "AtomeRedirect"]
BankRedirectDataFrom ==
    [BancontactCard |-> "BancontactCard", Bizum |-> "Bizum",
     Blik |-> "Blik", Eps |-> "Eps", Giropay |-> "Giropay",
     Ideal |-> "Ideal", Interac |-> "Interac",
     OnlineBankingCzechRepublic |-> "OnlineBankingCzechRepublic",
     OnlineBankingFinland |-> "OnlineBankingFinland",
     OnlineBankingPoland |-> "OnlineBankingPoland",
     OnlineBankingSlovakia |-> "OnlineBankingSlovakia",
     OpenBankingUk |-> "OpenBankingUk", Przelewy24 |-> "Przelewy24",
     Sofort |-> "Sofort", Trustly |-> "Trustly",
     OnlineBankingFpx |-> "OnlineBankingFpx",
     OnlineBankingThailand |-> "OnlineBankingThailand",
     LocalBankRedirect |-> "LocalBankRedirect"]
BankDebitDataFrom ==
    [AchBankDebit |-> "AchBankDebit", SepaBankDebit |-> "SepaBankDebit",
     BecsBankDebit |-> "BecsBankDebit", BacsBankDebit |-> "BacsBankDebit"]
BankTransferDataFrom ==
    [AchBankTransfer |-> "AchBankTransfer",
     SepaBankTransfer |-> "SepaBankTransfer",
     BacsBankTransfer |-> "BacsBankTransfer",
     MultibancoBankTransfer |-> "MultibancoBankTransfer",
     PermataBankTransfer |-> "PermataBankTransfer",
     BcaBankTransfer |-> "BcaBankTransfer",
     BniVaBankTransfer |-> "BniVaBankTransfer",
     BriVaBankTransfer |-> "BriVaBankTransfer",
     CimbVaBankTransfer |-> "CimbVaBankTransfer",
     DanamonVaBankTransfer |-> "DanamonVaBankTransfer",
     MandiriVaBankTransfer |-> "MandiriVaBankTransfer", Pix |-> "Pix",
     Pse |-> "Pse", LocalBankTransfer |-> "LocalBankTransfer"]
RealTimePaymentDataFrom ==
    [Fps |-> "Fps", DuitNow |-> "DuitNow", PromptPay |-> "PromptPay",
     VietQr |-> "VietQr"]
UpiDataFrom ==
    [UpiCollect |-> "UpiCollect", UpiIntent |-> "UpiIntent"]
VoucherDataFrom ==
    [Boleto |-> "Boleto", Alfamart |-> "Alfamart",
     Indomaret |-> "Indomaret", SevenEleven |-> "SevenEleven",
     Lawson |-> "SevenEleven", MiniStop |-> "SevenEleven",
     FamilyMart |-> "SevenEleven", Seicomart |-> "SevenEleven",
     PayEasy |-> "SevenEleven", Efecty |-> "Efecty",
     PagoEfectivo |-> "PagoEfectivo", RedCompra |-> "RedCompra",
     RedPagos |-> "RedPagos", Oxxo |-> "Oxxo"]
GiftCardDataFrom ==
    [Givex |-> "Givex", PaySafeCard |-> "PaySafeCard"]
OpenBankingDataFrom ==
    [OpenBankingPIS |-> "OpenBankingPIS"]

PayloadFrom(variant) ==
    CASE variant = "CardRedirect" -> CardRedirectDataFrom
      [] variant = "Wallet" -> WalletDataFrom
      [] variant = "PayLater" -> PayLaterDataFrom
      [] variant = "BankRedirect" -> BankRedirectDataFrom
      [] variant = "BankDebit" -> BankDebitDataFrom
      [] variant = "BankTransfer" -> BankTransferDataFrom
      [] variant = "RealTimePayment" -> RealTimePaymentDataFrom
      [] variant = "Upi" -> UpiDataFrom
      [] variant = "Voucher" -> VoucherDataFrom
      [] variant = "GiftCard" -> GiftCardDataFrom
      [] variant = "OpenBanking" -> OpenBankingDataFrom

\* api_models::payments::PaymentMethodData: the variants and payload
\* variants that the matches of the From implementations name.
ApiPaymentMethodDatas ==
    {[variant |-> "Card", sub |-> None, card |-> Some(c)] : c \in ApiCards}
      \cup {[variant |-> v, sub |-> None, card |-> None] :
               v \in {"Crypto", "MandatePayment", "Reward", "CardToken"}}
      \cup UNION {{[variant |-> v, sub |-> Some(x), card |-> None] :
                     x \in DOMAIN PayloadFrom(v)} :
                  v \in {w \in PaymentMethodDataVariants :
                           PayloadVariants(w) # {}}}

\* impl From<api_models::payments::PaymentMethodData> for PaymentMethodData
PaymentMethodDataFrom(api_model_payment_method_data) ==
    LET value == api_model_payment_method_data
    IN  CASE value.variant = "Card" ->
               [variant |-> "Card", sub |-> None,
                card |-> Some(CardFrom(Unwrap(value.card)))]
          [] value.variant = "CardRedirect" ->
               [variant |-> "CardRedirect",
                sub |-> Some(CardRedirectDataFrom[Unwrap(value.sub)]),
                card |-> None]
          [] value.variant = "Wallet" ->
               [variant |-> "Wallet",
                sub |-> Some(WalletDataFrom[Unwrap(value.sub)]),
                card |-> None]
          [] value.variant = "PayLater" ->
               [variant |-> "PayLater",
                sub |-> Some(PayLaterDataFrom[Unwrap(value.sub)]),
                card |-> None]
          [] value.variant = "BankRedirect" ->
               [variant |-> "BankRedirect",
                sub |-> Some(BankRedirectDataFrom[Unwrap(value.sub)]),
                card |-> None]
          [] value.variant = "BankDebit" ->
               [variant |-> "BankDebit",
                sub |-> Some(BankDebitDataFrom[Unwrap(value.sub)]),
                card |-> None]
          [] value.variant = "BankTransfer" ->
               [variant |-> "BankTransfer",
                sub |-> Some(BankTransferDataFrom[Unwrap(value.sub)]),
                card |-> None]
          [] value.variant = "Crypto" ->
               [variant |-> "Crypto", sub |-> None, card |-> None]
          [] value.variant = "MandatePayment" ->
               [variant |-> "MandatePayment", sub |-> None, card |-> None]
          [] value.variant = "Reward" ->
               [variant |-> "Reward", sub |-> None, card |-> None]
          [] value.variant = "RealTimePayment" ->
               [variant |-> "RealTimePayment",
                sub |-> Some(RealTimePaymentDataFrom[Unwrap(value.sub)]),
                card |-> None]
          [] value.variant = "Upi" ->
               [variant |-> "Upi",
                sub |-> Some(UpiDataFrom[Unwrap(value.sub)]),
                card |-> None]
          [] value.variant = "Voucher" ->
               [variant |-> "Voucher",
                sub |-> Some(VoucherDataFrom[Unwrap(value.sub)]),
                card |-> None]
          [] value.variant = "GiftCard" ->
               [variant |-> "GiftCard",
                sub |-> Some(GiftCardDataFrom[Unwrap(value.sub)]),
                card |-> None]
          [] value.variant = "CardToken" ->
               [variant |-> "CardToken", sub |-> None, card |-> None]
          [] value.variant = "OpenBanking" ->
               [variant |-> "OpenBanking",
                sub |-> Some(OpenBankingDataFrom[Unwrap(value.sub)]),
                card |-> None]

\* get_payment_method, had Reward been listed with the variants that have
\* no category.
get_payment_method_RewardAsNone(self) ==
    CASE self.variant = "Card" -> Some("Card")
      [] self.variant = "CardRedirect" -> Some("CardRedirect")
      [] self.variant = "Wallet" -> Some("Wallet")
      [] self.variant = "PayLater" -> Some("PayLater")
      [] self.variant = "BankRedirect" -> Some("BankRedirect")
      [] self.variant = "BankDebit" -> Some("BankDebit")
      [] self.variant = "BankTransfer" -> Some("BankTransfer")
      [] self.variant = "Crypto" -> Some("Crypto")
      [] self.variant = "RealTimePayment" -> Some("RealTimePayment")
      [] self.variant = "Upi" -> Some("Upi")
      [] self.variant = "Voucher" -> Some("Voucher")
      [] self.variant = "GiftCard" -> Some("GiftCard")
      [] self.variant = "OpenBanking" -> Some("OpenBanking")
      [] self.variant \in {"CardToken", "MandatePayment", "Reward"} -> None

\* PaymentMethodData::get_payment_method
get_payment_method(self) ==
    CASE self.variant = "Card" -> Some("Card")
      [] self.variant = "CardRedirect" -> Some("CardRedirect")
      [] self.variant = "Wallet" -> Some("Wallet")
      [] self.variant = "PayLater" -> Some("PayLater")
      [] self.variant = "BankRedirect" -> Some("BankRedirect")
      [] self.variant = "BankDebit" -> Some("BankDebit")
      [] self.variant = "BankTransfer" -> Some("BankTransfer")
      [] self.variant = "Crypto" -> Some("Crypto")
      [] self.variant = "Reward" -> Some("Reward")
      [] self.variant = "RealTimePayment" -> Some("RealTimePayment")
      [] self.variant = "Upi" -> Some("Upi")
      [] self.variant = "Voucher" -> Some("Voucher")
      [] self.variant = "GiftCard" -> Some("GiftCard")
      [] self.variant = "OpenBanking" -> Some("OpenBanking")
      [] self.variant \in {"CardToken", "MandatePayment"} -> None

\* No connector flow and no admin operation is under way.
ConnectorIdle ==
    /\ flow = None
    /\ body = None
    /\ http_code = None
    /\ data = None
    /\ response = None
    /\ result = None

AdminIdle ==
    /\ auth_type = None
    /\ validation = None
    /\ StoreIdle

\* A payment-method value of the public API model arrives.
DomainInit ==
    /\ payment_method_data \in
          [api_model : ApiPaymentMethodDatas, domain : {None}]
    /\ category = None
    /\ pc = "api_model"
    /\ ConnectorIdle
    /\ AdminIdle

\* PaymentMethodData::from(api_model_payment_method_data)
ConvertPaymentMethodData ==
    /\ pc = "api_model"
    /\ payment_method_data' =
          [payment_method_data EXCEPT
             !.domain = Some(PaymentMethodDataFrom(payment_method_data.api_model))]
    /\ pc' = "domain"
    /\ UNCHANGED <<category, connector_vars, admin_vars>>

\* payment_method_data.get_payment_method()
GetPaymentMethod ==
    /\ pc = "domain"
    /\ category' =
          Some(get_payment_method(Unwrap(payment_method_data.domain)))
    /\ pc' = "classified"
    /\ UNCHANGED <<payment_method_data, connector_vars, admin_vars>>

DomainNext ==
    \/ ConvertPaymentMethodData
    \/ GetPaymentMethod

DomainSpec == DomainInit /\ [][DomainNext]_vars

-----------------------------------------------------------------------------
(* The outbound path: TryFrom<&RouterData> for each Braintree*Request.      *)

\* Result<T, E> of the helpers the builders call with `?`.
ROk(v) == [ok |-> TRUE, value |-> v]
RErr(e) == [ok |-> FALSE, error |-> e]

\* errors::ConnectorError values of the outbound path
MissingRequiredField(field_name) ==
    [kind |-> "MissingRequiredField", field_name |-> field_name]
NotImplemented(capability) ==
    [kind |-> "NotImplemented", capability |-> capability]
CaptureMethodNotSupported == [kind |-> "CaptureMethodNotSupported"]
CurrencyNotSupported == [kind |-> "NotSupported"]
InvalidConnectorMetaData == [kind |-> "ParsingFailed"]

Currencies == {"USD", "JPY"}
Amounts == {100, 1050}
AccountIds == {"acct_1", ""}
Tokens == {"tok_1"}
CaptureMethods == {"Automatic", "Manual", "Scheduled"}

\* connector_meta_data as stored: a JSON object in which either member of
\* BraintreeMeta may be missing, or a JSON value of another shape.
MetaObjects ==
    [merchant_account_id : Opt(AccountIds),
     merchant_config_currency : Opt(Currencies)]
MalformedMeta == [json |-> "[]"]
ConnectorMetaData == Opt(MetaObjects \cup {MalformedMeta})

\* The generic credential of the connector account. Its key1 is an account
\* identifier of its own, different from every merchant_account_id.
AuthKeyId == "acct_9"
ConnectorAuthTypes ==
    {[kind |-> "SignatureKey", api_key |-> "public_key", key1 |-> AuthKeyId,
      api_secret |-> "private_key"]}

\* utils::to_connector_meta_from_secret::<BraintreeMeta>: the stored value
\* deserialized into BraintreeMeta, both members optional; no stored value
\* gives a BraintreeMeta without members, another shape a parsing failure.
to_connector_meta_from_secret(connector_meta_data) ==
    IF connector_meta_data = None
    THEN ROk([merchant_account_id |-> None,
              merchant_config_currency |-> None])
    ELSE IF Unwrap(connector_meta_data) = MalformedMeta
    THEN RErr(InvalidConnectorMetaData)
    ELSE ROk(Unwrap(connector_meta_data))

\* utils::validate_currency: a configured currency must be the request's.
validate_currency(request_currency, merchant_config_currency) ==
    IF IsSome(merchant_config_currency)
          /\ Unwrap(merchant_config_currency) # request_currency
    THEN RErr(CurrencyNotSupported)
    ELSE ROk(TRUE)

\* PaymentsAuthorizeRequestData::is_auto_capture
is_auto_capture(request) ==
    IF request.capture_method = None
    THEN ROk(TRUE)
    ELSE IF Unwrap(request.capture_method) = "Automatic"
    THEN ROk(TRUE)
    ELSE IF Unwrap(request.capture_method) = "Manual"
    THEN ROk(FALSE)
    ELSE RErr(CaptureMethodNotSupported)

\* RouterData::get_payment_method_token
get_payment_method_token(item) ==
    IF item.payment_method_token = None
    THEN RErr(MissingRequiredField("payment_method_token"))
    ELSE ROk(Unwrap(item.payment_method_token))

\* utils::to_currency_base_unit: the minor-unit amount as a string in the
\* currency's base unit (two decimals for USD, none for JPY).
TwoDigits(n) == IF n < 10 THEN "0" \o ToString(n) ELSE ToString(n)

to_currency_base_unit(amount, currency) ==
    IF currency = "JPY"
    THEN ROk(ToString(amount))
    ELSE ROk(ToString(amount \div 100) \o "." \o TwoDigits(amount % 100))

\* The query texts.
ChargeCreditCardQuery ==
    "mutation ChargeCreditCard($input: ChargeCreditCardInput!) { chargeCreditCard(input: $input) { transaction { id legacyId createdAt amount { value currencyCode } status } } }"
AuthorizeCreditCardQuery ==
    "mutation authorizeCreditCard($input: AuthorizeCreditCardInput!) { authorizeCreditCard(input: $input) {  transaction { id legacyId amount { value currencyCode } status } } }"
RefundTransactionQuery ==
    "mutation refundTransaction($input:  RefundTransactionInput!) { refundTransaction(input: $input) {clientMutationId refund { id legacyId amount { value currencyCode } status } } }"
TokenizeCreditCardQuery ==
    "mutation  tokenizeCreditCard($input: TokenizeCreditCardInput!) { tokenizeCreditCard(input: $input) { clientMutationId paymentMethod { id } } }"
CaptureTransactionQuery ==
    "mutation captureTransaction($input: CaptureTransactionInput!) { captureTransaction(input: $input) { clientMutationId transaction { id legacyId amount { value currencyCode } status } } }"
VoidTransactionQuery ==
    "mutation voidTransaction($input:  ReverseTransactionInput!) { reverseTransaction(input: $input) { clientMutationId reversal { ...  on Transaction { id legacyId amount { value currencyCode } status } } } }"

\* What a builder returns: the wire request, or the error that ended it.
Built(request) == [request |-> Some(request), error |-> None]
Refused(connector_error) ==
    [request |-> None, error |-> Some(connector_error)]

\* The branch on is_auto_capture, had its arms been exchanged.
PaymentsQuery_Exchanged(auto_capture) ==
    IF auto_capture THEN AuthorizeCreditCardQuery ELSE ChargeCreditCardQuery

\* match item.request.is_auto_capture()? { true => .., false => .. }
PaymentsQuery(auto_capture) ==
    IF auto_capture THEN ChargeCreditCardQuery ELSE AuthorizeCreditCardQuery

\* The unwrapping of merchant_account_id, had it been unwrap_or_default().
RequiredMerchantAccountId_OrDefault(metadata) ==
    IF metadata.merchant_account_id = None
    THEN ROk("")
    ELSE ROk(Unwrap(metadata.merchant_account_id))

\* metadata.merchant_account_id.ok_or(MissingRequiredField {..})
RequiredMerchantAccountId(metadata) ==
    IF metadata.merchant_account_id = None
    THEN RErr(MissingRequiredField("merchant_account_id"))
    ELSE ROk(Unwrap(metadata.merchant_account_id))

\* TryFrom<&PaymentsAuthorizeRouterData> for BraintreePaymentsRequest
TryFromPaymentsAuthorizeRouterData(item) ==
    LET metadata == to_connector_meta_from_secret(item.connector_meta_data)
    IN  IF ~metadata.ok THEN Refused(metadata.error)
        ELSE
    LET currency == validate_currency(item.request.currency,
                        metadata.value.merchant_config_currency)
    IN  IF ~currency.ok THEN Refused(currency.error)
        ELSE
    LET auto_capture == is_auto_capture(item.request)
    IN  IF ~auto_capture.ok THEN Refused(auto_capture.error)
        ELSE
    LET query == PaymentsQuery(auto_capture.value)
        payment_method_id == get_payment_method_token(item)
    IN  IF ~payment_method_id.ok THEN Refused(payment_method_id.error)
        ELSE
    LET amount == to_currency_base_unit(item.request.amount,
                                        item.request.currency)
    IN  IF ~amount.ok THEN Refused(amount.error)
        ELSE
    LET merchant_account_id == RequiredMerchantAccountId(metadata.value)
    IN  IF ~merchant_account_id.ok THEN Refused(merchant_account_id.error)
        ELSE Built([query |-> query,
                    variables |->
                      [input |->
                        [payment_method_id |-> payment_method_id.value,
                         transaction |->
                           [amount |-> amount.value,
                            merchant_account_id |->
                              merchant_account_id.value]]]])

\* The refund builder, had it read the account from the credential.
TryFromRefundsRouterData_AccountFromAuth(item) ==
    LET metadata == to_connector_meta_from_secret(item.connector_meta_data)
    IN  IF ~metadata.ok THEN Refused(metadata.error)
        ELSE
    LET currency == validate_currency(item.request.currency,
                        metadata.value.merchant_config_currency)
    IN  IF ~currency.ok THEN Refused(currency.error)
        ELSE
    LET amount == to_currency_base_unit(item.request.refund_amount,
                                        item.request.currency)
    IN  IF ~amount.ok THEN Refused(amount.error)
        ELSE
    LET merchant_account_id == RequiredMerchantAccountId(metadata.value)
    IN  IF ~merchant_account_id.ok THEN Refused(merchant_account_id.error)
        ELSE Built([query |-> RefundTransactionQuery,
                    variables |->
                      [input |->
                        [transaction_id |->
                           item.request.connector_transaction_id,
                         refund |->
                           [amount |-> amount.value,
                            merchant_account_id |->
                              item.connector_auth_type.key1]]]])

\* TryFrom<&RefundsRouterData<F>> for BraintreeRefundRequest
TryFromRefundsRouterData(item) ==
    LET metadata == to_connector_meta_from_secret(item.connector_meta_data)
    IN  IF ~metadata.ok THEN Refused(metadata.error)
        ELSE
    LET currency == validate_currency(item.request.currency,
                        metadata.value.merchant_config_currency)
    IN  IF ~currency.ok THEN Refused(currency.error)
        ELSE
    LET amount == to_currency_base_unit(item.request.refund_amount,
                                        item.request.currency)
    IN  IF ~amount.ok THEN Refused(amount.error)
        ELSE
    LET merchant_account_id == RequiredMerchantAccountId(metadata.value)
    IN  IF ~merchant_account_id.ok THEN Refused(merchant_account_id.error)
        ELSE Built([query |-> RefundTransactionQuery,
                    variables |->
                      [input |->
                        [transaction_id |->
                           item.request.connector_transaction_id,
                         refund |->
                           [amount |-> amount.value,
                            merchant_account_id |->
                              merchant_account_id.value]]]])

\* The tokenization builder, had its fallback arm reported a missing field.
TryFromTokenizationRouterData_MissingField(item) ==
    IF item.request.payment_method_data.variant = "Card"
    THEN LET card_data == Unwrap(item.request.payment_method_data.card)
         IN  Built([query |-> TokenizeCreditCardQuery,
                    variables |->
                      [input |->
                        [client_mutation_id |-> "12345667890",
                         credit_card |->
                           [number |-> card_data.card_number,
                            expiration_year |-> card_data.card_exp_year,
                            expiration_month |-> card_data.card_exp_month,
                            cvv |-> card_data.card_cvc,
                            cardholder_name |->
                              card_data.card_holder_name]]]])
    ELSE Refused(MissingRequiredField("payment_method_data"))

\* TryFrom<&TokenizationRouterData> for BraintreeTokenRequest
TryFromTokenizationRouterData(item) ==
    IF item.request.payment_method_data.variant = "Card"
    THEN LET card_data == Unwrap(item.request.payment_method_data.card)
         IN  Built([query |-> TokenizeCreditCardQuery,
                    variables |->
                      [input |->
                        [client_mutation_id |-> "12345667890",
                         credit_card |->
                           [number |-> card_data.card_number,
                            expiration_year |-> card_data.card_exp_year,
                            expiration_month |-> card_data.card_exp_month,
                            cvv |-> card_data.card_cvc,
                            cardholder_name |->
                              card_data.card_holder_name]]]])
    ELSE Refused(NotImplemented("Payment Method"))

\* TryFrom<&PaymentsCaptureRouterData> for BraintreeCaptureRequest
TryFromPaymentsCaptureRouterData(item) ==
    LET amount == to_currency_base_unit(item.request.amount_to_capture,
                                        item.request.currency)
    IN  IF ~amount.ok THEN Refused(amount.error)
        ELSE Built([query |-> CaptureTransactionQuery,
                    variables |->
                      [input |->
                        [transaction_id |->
                           item.request.connector_transaction_id,
                         transaction |-> [amount |-> amount.value]]]])

\* TryFrom<&PaymentsCancelRouterData> for BraintreeCancelRequest
TryFromPaymentsCancelRouterData(item) ==
    Built([query |-> VoidTransactionQuery,
           variables |->
             [input |->
               [transaction_id |-> item.request.connector_transaction_id]]])

\* The flows that send a mutation; Authorize sends the authorize or the
\* charge mutation.
BuildFlows == {"Authorize", "Capture", "Void", "Refund", "Tokenize"}

\* item.request of each flow
Requests(fl) ==
    CASE fl = "Authorize" ->
           [currency : Currencies, amount : Amounts,
            capture_method : Opt(CaptureMethods)]
      [] fl = "Capture" ->
           [connector_transaction_id : Ids, amount_to_capture : Amounts,
            currency : Currencies]
      [] fl = "Void" -> [connector_transaction_id : Ids]
      [] fl = "Refund" ->
           [connector_transaction_id : Ids, refund_amount : Amounts,
            currency : Currencies]
      [] fl = "Tokenize" -> [payment_method_data : ApiPaymentMethodDatas]

\* The RouterData a flow hands to its request builder.
BuildRouterDatas(fl) ==
    [status : {"Started"},
     response : {ResponseUnset},
     request : Requests(fl),
     connector_auth_type : ConnectorAuthTypes,
     connector_meta_data : ConnectorMetaData,
     payment_method_token : Opt(Tokens)]

BuildInit ==
    /\ flow \in BuildFlows
    /\ data \in BuildRouterDatas(flow)
    /\ body = None
    /\ http_code = None
    /\ response = None
    /\ result = None
    /\ pc = "building"
    /\ OthersIdle

\* Braintree*Request::try_from(&router_data), as each flow's
\* get_request_body calls it.
BuildAuthorize ==
    /\ pc = "building"
    /\ flow = "Authorize"
    /\ result' = Some(TryFromPaymentsAuthorizeRouterData(data))
    /\ pc' = "built"
    /\ UNCHANGED <<flow, body, http_code, data, response>>
    /\ UNCHANGED <<domain_vars, admin_vars>>

BuildCapture ==
    /\ pc = "building"
    /\ flow = "Capture"
    /\ result' = Some(TryFromPaymentsCaptureRouterData(data))
    /\ pc' = "built"
    /\ UNCHANGED <<flow, body, http_code, data, response>>
    /\ UNCHANGED <<domain_vars, admin_vars>>

BuildVoid ==
    /\ pc = "building"
    /\ flow = "Void"
    /\ result' = Some(TryFromPaymentsCancelRouterData(data))
    /\ pc' = "built"
    /\ UNCHANGED <<flow, body, http_code, data, response>>
    /\ UNCHANGED <<domain_vars, admin_vars>>

BuildRefund ==
    /\ pc = "building"
    /\ flow = "Refund"
    /\ result' = Some(TryFromRefundsRouterData(data))
    /\ pc' = "built"
    /\ UNCHANGED <<flow, body, http_code, data, response>>
    /\ UNCHANGED <<domain_vars, admin_vars>>

BuildTokenize ==
    /\ pc = "building"
    /\ flow = "Tokenize"
    /\ result' = Some(TryFromTokenizationRouterData(data))
    /\ pc' = "built"
    /\ UNCHANGED <<flow, body, http_code, data, response>>
    /\ UNCHANGED <<domain_vars, admin_vars>>

BuildNext ==
    \/ BuildAuthorize
    \/ BuildCapture
    \/ BuildVoid
    \/ BuildRefund
    \/ BuildTokenize

BuildSpec == BuildInit /\ [][BuildNext]_vars

-----------------------------------------------------------------------------
(* Debug rendering of the wire requests (#[derive(Debug)]).                  *)

\* CreditCardData, had cvv been declared a plain String.
LeafTypes_PlainCvv(fl) ==
    CASE fl = "Authorize" ->
           [query |-> "String", payment_method_id |-> "String",
            amount |-> "String", merchant_account_id |-> "Secret<String>"]
      [] fl = "Refund" ->
           [query |-> "String", transaction_id |-> "String",
            amount |-> "String", merchant_account_id |-> "Secret<String>"]
      [] fl = "Capture" ->
           [query |-> "String", transaction_id |-> "String",
            amount |-> "String"]
      [] fl = "Void" -> [query |-> "String", transaction_id |-> "String"]
      [] fl = "Tokenize" ->
           [query |-> "String", client_mutation_id |-> "String",
            number |-> "cards::CardNumber",
            expiration_year |-> "Secret<String>",
            expiration_month |-> "Secret<String>",
            cvv |-> "String",
            cardholder_name |-> "Secret<String>"]

\* The declared type of every leaf field of a flow's request struct.
LeafTypes(fl) ==
    CASE fl = "Authorize" ->
           [query |-> "String", payment_method_id |-> "String",
            amount |-> "String", merchant_account_id |-> "Secret<String>"]
      [] fl = "Refund" ->
           [query |-> "String", transaction_id |-> "String",
            amount |-> "String", merchant_account_id |-> "Secret<String>"]
      [] fl = "Capture" ->
           [query |-> "String", transaction_id |-> "String",
            amount |-> "String"]
      [] fl = "Void" -> [query |-> "String", transaction_id |-> "String"]
      [] fl = "Tokenize" ->
           [query |-> "String", client_mutation_id |-> "String",
            number |-> "cards::CardNumber",
            expiration_year |-> "Secret<String>",
            expiration_month |-> "Secret<String>",
            cvv |-> "Secret<String>",
            cardholder_name |-> "Secret<String>"]

\* The value each leaf field of a built request holds.
LeafValues(fl, request) ==
    CASE fl = "Authorize" ->
           [query |-> request.query,
            payment_method_id |-> request.variables.input.payment_method_id,
            amount |-> request.variables.input.transaction.amount,
            merchant_account_id |->
              request.variables.input.transaction.merchant_account_id]
      [] fl = "Refund" ->
           [query |-> request.query,
            transaction_id |-> request.variables.input.transaction_id,
            amount |-> request.variables.input.refund.amount,
            merchant_account_id |->
              request.variables.input.refund.merchant_account_id]
      [] fl = "Capture" ->
           [query |-> request.query,
            transaction_id |-> request.variables.input.transaction_id,
            amount |-> request.variables.input.transaction.amount]
      [] fl = "Void" ->
           [query |-> request.query,
            transaction_id |-> request.variables.input.transaction_id]
      [] fl = "Tokenize" ->
           [query |-> request.query,
            client_mutation_id |-> request.variables.input.client_mutation_id,
            number |-> request.variables.input.credit_card.number,
            expiration_year |->
              request.variables.input.credit_card.expiration_year,
            expiration_month |->
              request.variables.input.credit_card.expiration_month,
            cvv |-> request.variables.input.credit_card.cvv,
            cardholder_name |->
              request.variables.input.credit_card.cardholder_name]

\* The redacting wrappers: Debug prints the type, never the value.
RedactingTypes == {"Secret<String>", "cards::CardNumber"}

fmt_Debug(type, value) ==
    IF type \in RedactingTypes THEN "*** " \o type \o " ***" ELSE value

\* format!("{:?}", request), leaf by leaf.
DebugRendering(fl, request) ==
    [leaf \in DOMAIN LeafTypes(fl) |->
        fmt_Debug(LeafTypes(fl)[leaf], LeafValues(fl, request)[leaf])]

\* Both directions of the adapter: a response is parsed, or a request built.
AdapterInit == Init \/ BuildInit

AdapterNext == Next \/ BuildNext

AdapterSpec == AdapterInit /\ [][AdapterNext]_vars

-----------------------------------------------------------------------------
(* Credential validation: admin.rs, validate_connector_auth_type.            *)

\* Longest credential string followed.
MaxFieldLen == 2

\* A credential string is the sequence of its characters.
Whitespace == {" "}
Chars == Whitespace \cup {"k"}
RECURSIVE StringsUpTo(_)
StringsUpTo(n) ==
    IF n = 0 THEN {<<>>}
    ELSE LET shorter == StringsUpTo(n - 1)
         IN  shorter \cup
             {Append(s, c) : s \in {t \in shorter : Len(t) = n - 1}, c \in Chars}

FieldValues == StringsUpTo(MaxFieldLen)

\* str::trim: leading and trailing whitespace removed.
RECURSIVE trim_start(_)
trim_start(s) ==
    IF s # <<>> /\ Head(s) \in Whitespace THEN trim_start(Tail(s)) ELSE s

RECURSIVE trim_end(_)
trim_end(s) ==
    IF s # <<>> /\ s[Len(s)] \in Whitespace
    THEN trim_end(SubSeq(s, 1, Len(s) - 1))
    ELSE s

trim(s) == trim_end(trim_start(s))

is_empty(s) == Len(s) = 0

\* auth_key_map: HashMap<Currency, SecretSerdeValue>.
AuthKeyMaps == UNION {[cs -> {"auth_key"}] : cs \in SUBSET Currencies}

\* The encoded certificate and key: whether the pair yields an identity.
Pems == {"pem", "not_pem"}

create_identity_from_certificate_and_key(certificate, private_key) ==
    IF certificate = "pem" /\ private_key = "pem"
    THEN ROk("identity")
    ELSE RErr("CertificateDecodeFailed")

\* types::ConnectorAuthType
SubmittedAuthTypes ==
    {[variant |-> "TemporaryAuth"], [variant |-> "NoKey"]}
    \cup [variant : {"HeaderKey"}, api_key : FieldValues]
    \cup [variant : {"BodyKey"}, api_key : FieldValues, key1 : FieldValues]
    \cup [variant : {"SignatureKey"}, api_key : FieldValues,
          key1 : FieldValues, api_secret : FieldValues]
    \cup [variant : {"MultiAuthKey"}, api_key : FieldValues,
          key1 : FieldValues, api_secret : FieldValues, key2 : FieldValues]
    \cup [variant : {"CurrencyAuthKey"}, auth_key_map : AuthKeyMaps]
    \cup [variant : {"CertificateAuth"}, certificate : Pems,
          private_key : Pems]

\* errors::ApiErrorResponse::InvalidDataFormat
InvalidDataFormat(field_name, expected_format) ==
    [error |-> "InvalidDataFormat", field_name |-> field_name,
     expected_format |-> expected_format]

Unit == "()"

\* first?; second
AndThen(first, second) == IF first.ok THEN second ELSE first

validate_non_empty_field_Untrimmed(field_value, field_name) ==
    IF is_empty(field_value)
    THEN RErr(InvalidDataFormat("connector_account_details." \o field_name,
                                "a non empty String"))
    ELSE ROk(Unit)

\* The closure validate_non_empty_field.
validate_non_empty_field(field_value, field_name) ==
    IF is_empty(trim(field_value))
    THEN RErr(InvalidDataFormat("connector_account_details." \o field_name,
                                "a non empty String"))
    ELSE ROk(Unit)

validate_connector_auth_type(auth) ==
    CASE auth.variant = "TemporaryAuth" -> ROk(Unit)
      [] auth.variant = "HeaderKey" ->
            validate_non_empty_field(auth.api_key, "api_key")
      [] auth.variant = "BodyKey" ->
            AndThen(validate_non_empty_field(auth.api_key, "api_key"),
                    validate_non_empty_field(auth.key1, "key1"))
      [] auth.variant = "SignatureKey" ->
            AndThen(validate_non_empty_field(auth.api_key, "api_key"),
            AndThen(validate_non_empty_field(auth.key1, "key1"),
                    validate_non_empty_field(auth.api_secret, "api_secret")))
      [] auth.variant = "MultiAuthKey" ->
            AndThen(validate_non_empty_field(auth.api_key, "api_key"),
            AndThen(validate_non_empty_field(auth.key1, "key1"),
            AndThen(validate_non_empty_field(auth.api_secret, "api_secret"),
                    validate_non_empty_field(auth.key2, "key2"))))
      [] auth.variant = "CurrencyAuthKey" ->
            IF DOMAIN auth.auth_key_map = {}
            THEN RErr(InvalidDataFormat(
                        "connector_account_details.auth_key_map",
                        "a non empty map"))
            ELSE ROk(Unit)
      [] auth.variant = "CertificateAuth" ->
            IF create_identity_from_certificate_and_key(
                   auth.certificate, auth.private_key).ok
            THEN ROk(Unit)
            ELSE RErr(InvalidDataFormat(
                        "connector_account_details.certificate or connector_account_details.private_key",
                        "a valid base64 encoded string of PEM encoded Certificate and Private Key"))
      [] auth.variant = "NoKey" -> ROk(Unit)

DomainIdle ==
    /\ payment_method_data = None
    /\ category = None

\* The connector_account_details of a request, parsed into a
\* ConnectorAuthType.
AdminInit ==
    /\ auth_type \in SubmittedAuthTypes
    /\ validation = None
    /\ pc = "submitted"
    /\ ConnectorIdle
    /\ DomainIdle
    /\ StoreIdle

\* validate_connector_auth_type(&auth), as validate_auth_and_metadata_type
\* calls it.
ValidateConnectorAuthType ==
    /\ pc = "submitted"
    /\ validation' = validate_connector_auth_type(auth_type)
    /\ pc' = "validated"
    /\ UNCHANGED <<connector_vars, domain_vars, auth_type, store_vars>>

AdminNext ==
    \/ ValidateConnectorAuthType

AdminSpec == AdminInit /\ [][AdminNext]_vars

-----------------------------------------------------------------------------
(* Merchant connector accounts: admin.rs, create_payment_connector,          *)
(* update_payment_connector, delete_payment_connector.                       *)

\* How many merchant connector accounts are created in a run.
MaxConnectorAccounts == 2

\* errors::ApiErrorResponse values of the admin operations
MerchantAccountNotFound == [error |-> "MerchantAccountNotFound"]
BusinessProfileNotFound == [error |-> "BusinessProfileNotFound"]
MerchantConnectorAccountNotFound ==
    [error |-> "MerchantConnectorAccountNotFound"]
DuplicateMerchantConnectorAccount ==
    [error |-> "DuplicateMerchantConnectorAccount"]
InvalidRequestData(message) ==
    [error |-> "InvalidRequestData", message |-> message]

\* api_enums::ConnectorStatus
ConnectorStatuses == {"Active", "Inactive"}

\* The connectors followed: braintree is a routable payment processor,
\* plaid a payment-method-auth connector that routing does not know.
Connectors == {"braintree", "plaid"}
RoutableConnectors == {"braintree"}
PmAuthConnectors == {"plaid"}
ConnectorTypes == {"PaymentProcessor", "FizOperations"}

\* connector_account_details, once parsed into a ConnectorAuthType.
AccountDetails ==
    {[variant |-> "TemporaryAuth"],
     [variant |-> "HeaderKey", api_key |-> <<"k">>],
     [variant |-> "HeaderKey", api_key |-> <<" ">>]}

ConnectorLabels == {"label_1"}
TheMerchant == "merchant_1"
TheProfile ==
    [profile_id |-> "pro_merchant_1_default", merchant_id |-> TheMerchant,
     profile_name |-> "default"]
ProfileIds == {TheProfile.profile_id, "pro_9"}

\* api::MerchantConnectorCreate, with what the connector's own AuthType
\* makes of the credentials.
MerchantConnectorCreates ==
    [connector_name : Connectors,
     connector_type : ConnectorTypes,
     connector_account_details : AccountDetails,
     connector_accepts : BOOLEAN,
     connector_label : Opt(ConnectorLabels),
     profile_id : ProfileIds,
     status : Opt(ConnectorStatuses),
     disabled : Opt(BOOLEAN)]

\* api_models::admin::MerchantConnectorUpdate
MerchantConnectorUpdates ==
    [connector_account_details : Opt(AccountDetails),
     connector_accepts : BOOLEAN,
     connector_label : Opt(ConnectorLabels),
     status : Opt(ConnectorStatuses),
     disabled : Opt(BOOLEAN)]

\* validate_auth_and_metadata_type: the credential fields, then the
\* connector's own AuthType.
validate_auth_and_metadata_type(auth, connector_accepts) ==
    AndThen(validate_connector_auth_type(auth),
            IF connector_accepts THEN ROk(Unit)
            ELSE RErr(InvalidRequestData(
                        "The auth type is invalid for the connector")))

\* The function, had a missing status always fallen back to the current
\* status.
validate_status_and_disabled_NoTemporaryDefault(status, disabled, auth, current_status) ==
    IF status = Some("Active") /\ auth.variant = "TemporaryAuth"
    THEN RErr(InvalidRequestData(
           "Connector status cannot be active when using TemporaryAuth"))
    ELSE LET connector_status ==
                 IF IsSome(status) THEN Unwrap(status) ELSE current_status
         IN  IF disabled = Some(FALSE) /\ connector_status = "Inactive"
             THEN RErr(InvalidRequestData(
                    "Connector cannot be enabled when connector_status is inactive or when using TemporaryAuth"))
             ELSE ROk([status |-> connector_status,
                       disabled |->
                         IF IsSome(disabled) THEN disabled
                         ELSE IF connector_status = "Inactive"
                         THEN Some(TRUE)
                         ELSE None])

\* The function, had it left disabled unset for an inactive connector.
validate_status_and_disabled_NoDisabledDefault(status, disabled, auth, current_status) ==
    IF status = Some("Active") /\ auth.variant = "TemporaryAuth"
    THEN RErr(InvalidRequestData(
           "Connector status cannot be active when using TemporaryAuth"))
    ELSE LET connector_status ==
                 IF IsSome(status) THEN Unwrap(status)
                 ELSE IF auth.variant = "TemporaryAuth" THEN "Inactive"
                 ELSE current_status
         IN  IF disabled = Some(FALSE) /\ connector_status = "Inactive"
             THEN RErr(InvalidRequestData(
                    "Connector cannot be enabled when connector_status is inactive or when using TemporaryAuth"))
             ELSE ROk([status |-> connector_status, disabled |-> disabled])

validate_status_and_disabled(status, disabled, auth, current_status) ==
    IF status = Some("Active") /\ auth.variant = "TemporaryAuth"
    THEN RErr(InvalidRequestData(
           "Connector status cannot be active when using TemporaryAuth"))
    ELSE LET connector_status ==
                 IF IsSome(status) THEN Unwrap(status)
                 ELSE IF auth.variant = "TemporaryAuth" THEN "Inactive"
                 ELSE current_status
         IN  IF disabled = Some(FALSE) /\ connector_status = "Inactive"
             THEN RErr(InvalidRequestData(
                    "Connector cannot be enabled when connector_status is inactive or when using TemporaryAuth"))
             ELSE ROk([status |-> connector_status,
                       disabled |->
                         IF IsSome(disabled) THEN disabled
                         ELSE IF connector_status = "Inactive"
                         THEN Some(TRUE)
                         ELSE None])

\* utils::generate_id(consts::ID_LENGTH, "mca"): an id never handed out
\* before.
GenerateMcaId(db) == "mca_" \o ToString(db.ids_generated + 1)


\* A function with one more (or one replaced) entry.
Put(f, key, value) ==
    [k \in DOMAIN f \cup {key} |-> IF k = key THEN value ELSE f[k]]

\* A function without an entry.
Remove(f, key) == [k \in DOMAIN f \ {key} |-> f[k]]

\* What create_payment_connector does before it reads the default routing
\* configs: the lookups and validations, then the row to insert.
NewMerchantConnectorAccount(db, merchant_id, req) ==
    IF merchant_id \notin db.merchant_key_store
    THEN RErr(MerchantAccountNotFound)
    ELSE IF merchant_id \notin DOMAIN db.merchant_account
    THEN RErr(MerchantAccountNotFound)
    ELSE IF ~\E profile \in db.business_profile :
                profile.profile_id = req.profile_id
    THEN RErr(BusinessProfileNotFound)
    ELSE IF /\ req.connector_name \in PmAuthConnectors
            /\ req.connector_type
                  \notin {"PaymentMethodAuth", "PaymentProcessor"}
    THEN RErr(InvalidRequestData("Invalid connector type given"))
    ELSE IF /\ req.connector_name \notin PmAuthConnectors
            /\ req.connector_name \notin RoutableConnectors
    THEN RErr(InvalidRequestData("Invalid connector name given"))
    ELSE LET business_profile ==
                 CHOOSE profile \in db.business_profile :
                     profile.profile_id = req.profile_id
             connector_label ==
                 IF IsSome(req.connector_label)
                 THEN Unwrap(req.connector_label)
                 ELSE req.connector_name \o "_"
                        \o business_profile.profile_name
             auth == req.connector_account_details
             validated ==
                 validate_auth_and_metadata_type(auth, req.connector_accepts)
             checked ==
                 validate_status_and_disabled(req.status, req.disabled,
                                              auth, "Active")
         IN  IF ~validated.ok THEN validated
             ELSE IF ~checked.ok THEN checked
             ELSE ROk([merchant_id |-> merchant_id,
                       connector_name |-> req.connector_name,
                       merchant_connector_id |-> GenerateMcaId(db),
                       connector_account_details |-> auth,
                       disabled |-> checked.value.disabled,
                       connector_label |-> Some(connector_label),
                       profile_id |-> Some(req.profile_id),
                       status |-> checked.value.status])

\* routing_helpers::get_merchant_default_config: the stored list of
\* choices, empty when none is stored.
get_merchant_default_config(db, key) ==
    IF key \in DOMAIN db.default_config THEN db.default_config[key]
    ELSE <<>>

\* routing_helpers::update_merchant_default_config: the list replaces the
\* stored one.
update_merchant_default_config(db, key, config) ==
    [db EXCEPT !.default_config = Put(@, key, config)]

\* store.insert_merchant_connector_account: a second account with the
\* profile and label of another is refused.
insert_merchant_connector_account(db, row) ==
    IF \E id \in DOMAIN db.merchant_connector_account :
          /\ db.merchant_connector_account[id].profile_id = row.profile_id
          /\ db.merchant_connector_account[id].connector_label
                = row.connector_label
    THEN RErr(DuplicateMerchantConnectorAccount)
    ELSE ROk([db EXCEPT
                !.merchant_connector_account =
                    Put(@, row.merchant_connector_id, row),
                !.ids_generated = @ + 1])

\* routing_types::RoutableConnectorChoice of a new account
RoutableConnectorChoice(row) ==
    [choice_kind |-> "FullStruct", connector |-> row.connector_name,
     merchant_connector_id |-> Some(row.merchant_connector_id)]

Contains(config, choice) == \E i \in DOMAIN config : config[i] = choice

\* if !config.contains(&choice) { config.push(choice); update(config) }
PushAndUpdate(db, key, config, choice) ==
    IF Contains(config, choice) THEN db
    ELSE update_merchant_default_config(db, key, Append(config, choice))

\* MerchantConnectorResponse: what the claims read of it.
MerchantConnectorResponse(row) ==
    [merchant_connector_id |-> row.merchant_connector_id,
     status |-> row.status, disabled |-> row.disabled]

\* What an operation leaves: the store and its Result.
Outcome_(db, res) == [store |-> db, result |-> res]

create_payment_connector(db, merchant_id, req) ==
    LET new == NewMerchantConnectorAccount(db, merchant_id, req)
    IN  IF ~new.ok THEN Outcome_(db, new)
        ELSE
        LET default_routing_config ==
                get_merchant_default_config(db, merchant_id)
            default_routing_config_for_profile ==
                get_merchant_default_config(db, req.profile_id)
            inserted == insert_merchant_connector_account(db, new.value)
            choice == RoutableConnectorChoice(new.value)
        IN  IF ~inserted.ok THEN Outcome_(db, inserted)
            ELSE IF req.connector_name \notin RoutableConnectors
            THEN Outcome_(inserted.value,
                          ROk(MerchantConnectorResponse(new.value)))
            ELSE Outcome_(
                   PushAndUpdate(
                     PushAndUpdate(inserted.value, merchant_id,
                                   default_routing_config, choice),
                     req.profile_id, default_routing_config_for_profile,
                     choice),
                   ROk(MerchantConnectorResponse(new.value)))

\* store.update_merchant_connector_account with the changeset of
\* MerchantConnectorAccountUpdate::Update: a None member leaves the column.
update_merchant_connector_account(db, mca, update) ==
    LET label ==
            IF IsSome(update.connector_label) THEN update.connector_label
            ELSE mca.connector_label
        row ==
            [mca EXCEPT
               !.connector_label = label,
               !.connector_account_details =
                  IF IsSome(update.connector_account_details)
                  THEN Unwrap(update.connector_account_details) ELSE @,
               !.disabled = IF IsSome(update.disabled)
                            THEN update.disabled ELSE @,
               !.status = IF IsSome(update.status)
                          THEN Unwrap(update.status) ELSE @]
    IN  IF \E id \in DOMAIN db.merchant_connector_account
                    \ {mca.merchant_connector_id} :
              /\ db.merchant_connector_account[id].profile_id
                    = mca.profile_id
              /\ db.merchant_connector_account[id].connector_label = label
        THEN RErr(DuplicateMerchantConnectorAccount)
        ELSE ROk([store |->
                    [db EXCEPT !.merchant_connector_account =
                                   Put(@, mca.merchant_connector_id, row)],
                  row |-> row])

update_payment_connector(db, merchant_id, merchant_connector_id, req) ==
    IF merchant_id \notin db.merchant_key_store
    THEN Outcome_(db, RErr(MerchantAccountNotFound))
    ELSE IF merchant_id \notin DOMAIN db.merchant_account
    THEN Outcome_(db, RErr(MerchantAccountNotFound))
    ELSE IF merchant_connector_id \notin DOMAIN db.merchant_connector_account
    THEN Outcome_(db, RErr(MerchantConnectorAccountNotFound))
    ELSE
    LET mca == db.merchant_connector_account[merchant_connector_id]
        auth == IF IsSome(req.connector_account_details)
                THEN Unwrap(req.connector_account_details)
                ELSE mca.connector_account_details
        validated ==
            validate_auth_and_metadata_type(auth, req.connector_accepts)
        checked ==
            validate_status_and_disabled(req.status, req.disabled, auth,
                                         mca.status)
    IN  IF ~validated.ok THEN Outcome_(db, validated)
        ELSE IF ~checked.ok THEN Outcome_(db, checked)
        ELSE
        LET updated ==
                update_merchant_connector_account(db, mca,
                    [connector_label |-> req.connector_label,
                     connector_account_details |->
                        req.connector_account_details,
                     disabled |-> checked.value.disabled,
                     status |-> Some(checked.value.status)])
        IN  IF ~updated.ok THEN Outcome_(db, updated)
            ELSE Outcome_(updated.value.store,
                          ROk(MerchantConnectorResponse(updated.value.row)))

delete_payment_connector(db, merchant_id, merchant_connector_id) ==
    IF merchant_id \notin db.merchant_key_store
    THEN Outcome_(db, RErr(MerchantAccountNotFound))
    ELSE IF merchant_id \notin DOMAIN db.merchant_account
    THEN Outcome_(db, RErr(MerchantAccountNotFound))
    ELSE IF merchant_connector_id \notin DOMAIN db.merchant_connector_account
    THEN Outcome_(db, RErr(MerchantConnectorAccountNotFound))
    ELSE Outcome_([db EXCEPT !.merchant_connector_account =
                                 Remove(@, merchant_connector_id)],
                  ROk([merchant_id |-> merchant_id,
                       merchant_connector_id |-> merchant_connector_id,
                       deleted |-> TRUE]))

\* The tables, before any merchant exists.
EmptyStore ==
    [organization |-> {},
     merchant_key_store |-> {},
     merchant_account |-> <<>>,
     business_profile |-> {},
     configs |-> {},
     merchant_connector_account |-> <<>>,
     default_config |-> <<>>,
     ids_generated |-> 0]

\* The tables once create_merchant_account has created TheMerchant with
\* its default business profile.
StoreWithTheMerchant ==
    [EmptyStore EXCEPT
       !.organization = {"org_1"},
       !.merchant_key_store = {TheMerchant},
       !.merchant_account =
          Put(<<>>, TheMerchant,
              [organization_id |-> "org_1",
               default_profile |-> Some(TheProfile.profile_id),
               storage_scheme |-> "PostgresOnly"]),
       !.business_profile = {TheProfile},
       !.configs = {"merchant_1_requires_cvv",
                    "fingerprint_secret_merchant_1"}]

McaIdPool == {"mca_" \o ToString(n) : n \in 1..MaxConnectorAccounts}

McaInit ==
    /\ store = StoreWithTheMerchant
    /\ conf = [kv_soft_kill_mode |-> FALSE]
    /\ calls = None
    /\ pc = "admin"
    /\ auth_type = None
    /\ validation = None
    /\ ConnectorIdle
    /\ DomainIdle

\* A call of an admin operation ran from its first line to its return.
Ran(op, outcome) ==
    /\ store' = outcome.store
    /\ calls' = [op |-> op, result |-> outcome.result]
    /\ UNCHANGED <<conf, pc, auth_type, validation, connector_vars,
                   domain_vars>>

CreatePaymentConnector ==
    /\ pc = "admin"
    /\ store.ids_generated < MaxConnectorAccounts
    /\ \E req \in MerchantConnectorCreates :
          Ran("create_payment_connector",
              create_payment_connector(store, TheMerchant, req))

UpdatePaymentConnector ==
    /\ pc = "admin"
    /\ \E merchant_connector_id \in McaIdPool,
          req \in MerchantConnectorUpdates :
          Ran("update_payment_connector",
              update_payment_connector(store, TheMerchant,
                                       merchant_connector_id, req))

DeletePaymentConnector ==
    /\ pc = "admin"
    /\ \E merchant_connector_id \in McaIdPool :
          Ran("delete_payment_connector",
              delete_payment_connector(store, TheMerchant,
                                       merchant_connector_id))

McaNext ==
    \/ CreatePaymentConnector
    \/ UpdatePaymentConnector
    \/ DeletePaymentConnector

McaSpec == McaInit /\ [][McaNext]_vars

-----------------------------------------------------------------------------
(* Two create_payment_connector calls under way at once: each runs from    *)
(* one await on the store to the next.                                       *)

Procs == {1, 2}

\* The requests of the two calls: well-formed, for the one profile.
ConcurrentCreates ==
    {req \in MerchantConnectorCreates :
        /\ req.connector_type = "PaymentProcessor"
        /\ req.connector_account_details
              = [variant |-> "HeaderKey", api_key |-> <<"k">>]
        /\ req.connector_accepts
        /\ req.profile_id = TheProfile.profile_id
        /\ req.status = None
        /\ req.disabled = None}

\* The locals of a call that has not started.
Started(req) ==
    [at |-> "start", req |-> req, row |-> None,
     default_routing_config |-> None,
     default_routing_config_for_profile |-> None,
     result |-> None]

ConcurrentInit ==
    /\ store = StoreWithTheMerchant
    /\ conf = [kv_soft_kill_mode |-> FALSE]
    /\ calls \in [Procs -> {Started(req) : req \in ConcurrentCreates}]
    /\ pc = "admin"
    /\ auth_type = None
    /\ validation = None
    /\ ConnectorIdle
    /\ DomainIdle

\* A step of call p: its locals and the store after it.
Step(p, locals, db) ==
    /\ calls' = [calls EXCEPT ![p] = locals]
    /\ store' = db
    /\ UNCHANGED <<conf, pc, auth_type, validation, connector_vars,
                   domain_vars>>

\* Lines 1149-1392: the lookups, the validations, the row.
PrepareAccount ==
    \E p \in Procs :
        /\ calls[p].at = "start"
        /\ LET new == NewMerchantConnectorAccount(store, TheMerchant,
                                                  calls[p].req)
           IN  IF new.ok
               THEN Step(p, [calls[p] EXCEPT !.at = "prepared",
                                             !.row = Some(new.value)],
                         store)
               ELSE Step(p, [calls[p] EXCEPT !.at = "done",
                                             !.result = Some(new)],
                         store)

\* Lines 1410-1412: the merchant's default routing config is read.
ReadMerchantConfig ==
    \E p \in Procs :
        /\ calls[p].at = "prepared"
        /\ Step(p, [calls[p] EXCEPT
                      !.at = "read_merchant_config",
                      !.default_routing_config =
                         Some(get_merchant_default_config(store,
                                                          TheMerchant))],
                store)

\* Lines 1414-1419: the profile's default routing config is read.
ReadProfileConfig ==
    \E p \in Procs :
        /\ calls[p].at = "read_merchant_config"
        /\ Step(p, [calls[p] EXCEPT
                      !.at = "read_profile_config",
                      !.default_routing_config_for_profile =
                         Some(get_merchant_default_config(
                                  store, calls[p].req.profile_id))],
                store)

\* Lines 1421-1434: the row is inserted. Its generated id is one that no
\* other call holds.
InsertAccount ==
    \E p \in Procs :
        /\ calls[p].at = "read_profile_config"
        /\ LET row == [Unwrap(calls[p].row) EXCEPT
                         !.merchant_connector_id = GenerateMcaId(store)]
               inserted == insert_merchant_connector_account(store, row)
           IN  IF ~inserted.ok
               THEN Step(p, [calls[p] EXCEPT !.at = "done",
                                             !.result = Some(inserted)],
                         store)
               ELSE IF row.connector_name \notin RoutableConnectors
               THEN Step(p, [calls[p] EXCEPT
                               !.at = "done",
                               !.row = Some(row),
                               !.result =
                                  Some(ROk(MerchantConnectorResponse(row)))],
                         inserted.value)
               ELSE Step(p, [calls[p] EXCEPT !.at = "inserted",
                                             !.row = Some(row)],
                         inserted.value)

\* Lines 1443-1452: the choice is pushed to the list read earlier and the
\* list written back.
WriteMerchantConfig ==
    \E p \in Procs :
        /\ calls[p].at = "inserted"
        /\ Step(p, [calls[p] EXCEPT !.at = "wrote_merchant_config"],
                PushAndUpdate(store, TheMerchant,
                              Unwrap(calls[p].default_routing_config),
                              RoutableConnectorChoice(Unwrap(calls[p].row))))

\* Lines 1453-1462: the same for the profile's list; the call returns.
WriteProfileConfig ==
    \E p \in Procs :
        /\ calls[p].at = "wrote_merchant_config"
        /\ Step(p, [calls[p] EXCEPT
                      !.at = "done",
                      !.result =
                         Some(ROk(MerchantConnectorResponse(
                                      Unwrap(calls[p].row))))],
                PushAndUpdate(
                    store, calls[p].req.profile_id,
                    Unwrap(calls[p].default_routing_config_for_profile),
                    RoutableConnectorChoice(Unwrap(calls[p].row))))

ConcurrentNext ==
    \/ PrepareAccount
    \/ ReadMerchantConfig
    \/ ReadProfileConfig
    \/ InsertAccount
    \/ WriteMerchantConfig
    \/ WriteProfileConfig

ConcurrentSpec == ConcurrentInit /\ [][ConcurrentNext]_vars

-----------------------------------------------------------------------------
(* Merchant accounts: admin.rs, create_merchant_account,                     *)
(* merchant_account_delete, kv_for_merchant, toggle_kv_for_all_merchants.    *)

\* How many organizations are created, and how long a list of primary
\* business details is followed.
MaxOrganizations == 2
MaxBusinessDetails == 2

DuplicateMerchantAccount == [error |-> "DuplicateMerchantAccount"]
GenericDuplicateError == [error |-> "GenericDuplicateError"]
GenericNotFoundError == [error |-> "GenericNotFoundError"]
PreconditionFailed == [error |-> "PreconditionFailed"]
InternalServerError == [error |-> "InternalServerError"]
InvalidDataValue(field_name) ==
    [error |-> "InvalidDataValue", field_name |-> field_name]

MerchantIds == {TheMerchant, "merchant_2"}
OrganizationIds == {"org_1"}

\* admin_types::PrimaryBusinessDetails
PrimaryBusinessDetails ==
    {[country |-> "US", business |-> "default"],
     [country |-> "US", business |-> "food"]}

\* api::MerchantAccountCreate: the first merchant is created with every
\* list of business details, the second with none.
MerchantAccountCreates ==
    {req \in [merchant_id : MerchantIds,
              organization_id : Opt(OrganizationIds),
              primary_business_details :
                 Opt(VecOf(PrimaryBusinessDetails, MaxBusinessDetails)),
              sub_merchants_enabled : Opt({TRUE}),
              parent_merchant_id : Opt({TheMerchant})] :
        /\ IsSome(req.parent_merchant_id) => IsSome(req.sub_merchants_enabled)
        /\ IsSome(req.primary_business_details)
              => req.merchant_id = TheMerchant}

\* MerchantStorageScheme
StorageSchemes == {"PostgresOnly", "RedisKv"}

\* get_parent_merchant
get_parent_merchant(db, sub_merchants_enabled, parent_merchant) ==
    IF sub_merchants_enabled = Some(TRUE)
    THEN IF ~IsSome(parent_merchant) THEN RErr(PreconditionFailed)
         ELSE IF Unwrap(parent_merchant) \notin DOMAIN db.merchant_account
         THEN RErr(InvalidDataValue("parent_merchant_id"))
         ELSE ROk(parent_merchant)
    ELSE ROk(None)

\* CreateOrValidateOrganization::new(..).create_or_validate(db): the id and
\* the store it leaves.
create_or_validate(db, organization_id) ==
    IF IsSome(organization_id)
    THEN IF Unwrap(organization_id) \in db.organization
         THEN ROk([store |-> db, org_id |-> Unwrap(organization_id)])
         ELSE RErr(GenericNotFoundError)
    ELSE LET org_id ==
                 "org_" \o ToString(Cardinality(db.organization) + 1)
         IN  ROk([store |-> [db EXCEPT !.organization = @ \cup {org_id}],
                  org_id |-> org_id])

\* admin::create_business_profile: the row of a new profile; its generated
\* id is one no other profile has.
BusinessProfileNew(merchant_id, profile_name) ==
    [profile_id |-> "pro_" \o merchant_id \o "_" \o profile_name,
     merchant_id |-> merchant_id,
     profile_name |-> profile_name]

\* create_and_insert_business_profile: a merchant has one profile of a
\* name.
create_and_insert_business_profile(db, merchant_id, profile_name) ==
    IF \E profile \in db.business_profile :
          /\ profile.merchant_id = merchant_id
          /\ profile.profile_name = profile_name
    THEN RErr(GenericDuplicateError)
    ELSE ROk([store |->
                [db EXCEPT !.business_profile =
                    @ \cup {BusinessProfileNew(merchant_id, profile_name)}],
              business_profile |->
                BusinessProfileNew(merchant_id, profile_name)])

\* create_business_profiles_for_each_business_details: the loop; a failed
\* insert is logged and skipped.
RECURSIVE create_business_profiles_for_each_business_details(_, _, _)
create_business_profiles_for_each_business_details(db, merchant_id, details) ==
    IF details = <<>>
    THEN [store |-> db, business_profiles |-> <<>>]
    ELSE LET business_profile == Head(details)
             profile_name ==
                 business_profile.country \o "_" \o business_profile.business
             created ==
                 create_and_insert_business_profile(db, merchant_id,
                                                    profile_name)
             rest ==
                 create_business_profiles_for_each_business_details(
                     IF created.ok THEN created.value.store ELSE db,
                     merchant_id, Tail(details))
         IN  [store |-> rest.store,
              business_profiles |->
                 IF created.ok
                 THEN <<created.value.business_profile>>
                        \o rest.business_profiles
                 ELSE rest.business_profiles]

\* The default profile, had it been set to the first profile created
\* whenever there is one.
create_business_profiles_FirstCreated(db, merchant_id, primary_business_details) ==
    IF IsSome(primary_business_details)
       /\ Unwrap(primary_business_details) # <<>>
    THEN LET made ==
                 create_business_profiles_for_each_business_details(
                     db, merchant_id, Unwrap(primary_business_details))
         IN  ROk([store |-> made.store,
                  default_profile |->
                     IF Len(made.business_profiles) >= 1
                     THEN Some(made.business_profiles[1].profile_id)
                     ELSE None])
    ELSE LET created ==
                 create_and_insert_business_profile(db, merchant_id,
                                                    "default")
         IN  IF ~created.ok THEN created
             ELSE ROk([store |-> created.value.store,
                       default_profile |->
                          Some(created.value.business_profile.profile_id)])

\* CreateBusinessProfile::new(..).create_business_profiles(..): the store
\* and the default_profile it leaves in the merchant account.
create_business_profiles(db, merchant_id, primary_business_details) ==
    IF IsSome(primary_business_details)
       /\ Unwrap(primary_business_details) # <<>>
    THEN LET made ==
                 create_business_profiles_for_each_business_details(
                     db, merchant_id, Unwrap(primary_business_details))
         IN  ROk([store |-> made.store,
                  default_profile |->
                     IF Len(made.business_profiles) = 1
                     THEN Some(made.business_profiles[1].profile_id)
                     ELSE None])
    ELSE LET created ==
                 create_and_insert_business_profile(db, merchant_id,
                                                    "default")
         IN  IF ~created.ok THEN created
             ELSE ROk([store |-> created.value.store,
                       default_profile |->
                          Some(created.value.business_profile.profile_id)])

\* The keys insert_merchant_configs inserts.
RequiresCvvKey(merchant_id) == merchant_id \o "_requires_cvv"
FingerprintSecretKey(merchant_id) == "fingerprint_secret_" \o merchant_id

\* insert_merchant_configs: two inserts, the first failure ends it.
insert_merchant_configs(db, merchant_id) ==
    IF RequiresCvvKey(merchant_id) \in db.configs
    THEN [store |-> db, result |-> RErr(InternalServerError)]
    ELSE IF FingerprintSecretKey(merchant_id) \in db.configs
    THEN [store |-> [db EXCEPT !.configs =
                                  @ \cup {RequiresCvvKey(merchant_id)}],
          result |-> RErr(InternalServerError)]
    ELSE [store |-> [db EXCEPT !.configs =
                                  @ \cup {RequiresCvvKey(merchant_id),
                                          FingerprintSecretKey(merchant_id)}],
          result |-> ROk(Unit)]

\* api::MerchantAccountResponse: what the claims read of it.
MerchantAccountResponse(merchant_id, merchant_account) ==
    [merchant_id |-> merchant_id,
     organization_id |-> merchant_account.organization_id,
     default_profile |-> merchant_account.default_profile]

\* create_domain_model_from_request: the merchant account to insert and
\* the store it leaves.
create_domain_model_from_request(db, req) ==
    LET parent_merchant_id ==
            get_parent_merchant(db, req.sub_merchants_enabled,
                                req.parent_merchant_id)
    IN  IF ~parent_merchant_id.ok THEN Outcome_(db, parent_merchant_id)
        ELSE
        LET organization == create_or_validate(db, req.organization_id)
        IN  IF ~organization.ok THEN Outcome_(db, organization)
            ELSE
            LET profiles ==
                    create_business_profiles(organization.value.store,
                                             req.merchant_id,
                                             req.primary_business_details)
            IN  IF ~profiles.ok
                THEN Outcome_(organization.value.store, profiles)
                ELSE Outcome_(
                       profiles.value.store,
                       ROk([organization_id |-> organization.value.org_id,
                            default_profile |->
                               profiles.value.default_profile,
                            storage_scheme |-> "PostgresOnly"]))

create_merchant_account(db, req) ==
    LET merchant_id == req.merchant_id
        domain_merchant_account == create_domain_model_from_request(db, req)
    IN  IF ~domain_merchant_account.result.ok THEN domain_merchant_account
        ELSE IF merchant_id \in domain_merchant_account.store.merchant_key_store
        THEN Outcome_(domain_merchant_account.store,
                      RErr(DuplicateMerchantAccount))
        ELSE
        LET with_key_store ==
                [domain_merchant_account.store EXCEPT
                    !.merchant_key_store = @ \cup {merchant_id}]
        IN  IF merchant_id \in DOMAIN with_key_store.merchant_account
            THEN Outcome_(with_key_store, RErr(DuplicateMerchantAccount))
            ELSE
            LET with_merchant ==
                    [with_key_store EXCEPT
                        !.merchant_account =
                            Put(@, merchant_id,
                                domain_merchant_account.result.value)]
                configured == insert_merchant_configs(with_merchant,
                                                      merchant_id)
            IN  IF ~configured.result.ok THEN configured
                ELSE Outcome_(
                       configured.store,
                       ROk(MerchantAccountResponse(
                               merchant_id,
                               domain_merchant_account.result.value)))

\* merchant_account_delete, had it left the key store in place.
merchant_account_delete_KeepsKeyStore(db, merchant_id) ==
    IF merchant_id \notin db.merchant_key_store
    THEN Outcome_(db, RErr(MerchantAccountNotFound))
    ELSE IF merchant_id \notin DOMAIN db.merchant_account
    THEN Outcome_(db, RErr(MerchantAccountNotFound))
    ELSE Outcome_(
           [db EXCEPT
              !.merchant_account = Remove(@, merchant_id),
              !.configs = @ \ {RequiresCvvKey(merchant_id)}],
           ROk([merchant_id |-> merchant_id, deleted |-> FALSE]))

merchant_account_delete(db, merchant_id) ==
    IF merchant_id \notin db.merchant_key_store
    THEN Outcome_(db, RErr(MerchantAccountNotFound))
    ELSE IF merchant_id \notin DOMAIN db.merchant_account
    THEN Outcome_(db, RErr(MerchantAccountNotFound))
    ELSE LET is_merchant_account_deleted == TRUE
             is_merchant_key_store_deleted == TRUE
         IN  Outcome_(
               [db EXCEPT
                  !.merchant_account = Remove(@, merchant_id),
                  !.merchant_key_store = @ \ {merchant_id},
                  !.configs = @ \ {RequiresCvvKey(merchant_id)}],
               ROk([merchant_id |-> merchant_id,
                    deleted |-> is_merchant_account_deleted
                                  /\ is_merchant_key_store_deleted]))

\* storage::MerchantAccountUpdate::StorageSchemeUpdate applied to a row.
StorageSchemeUpdate(db, merchant_id, storage_scheme) ==
    [db EXCEPT !.merchant_account[merchant_id].storage_scheme =
                   storage_scheme]

ToggleKVResponse(merchant_id, storage_scheme) ==
    [merchant_id |-> merchant_id, kv_enabled |-> storage_scheme = "RedisKv"]

kv_for_merchant(db, settings, merchant_id, enable) ==
    IF merchant_id \notin db.merchant_key_store
    THEN Outcome_(db, RErr(MerchantAccountNotFound))
    ELSE IF merchant_id \notin DOMAIN db.merchant_account
    THEN Outcome_(db, RErr(MerchantAccountNotFound))
    ELSE LET storage_scheme == db.merchant_account[merchant_id].storage_scheme
         IN  IF enable = (storage_scheme = "RedisKv")
             THEN Outcome_(db, ROk(ToggleKVResponse(merchant_id,
                                                    storage_scheme)))
             ELSE IF enable
             THEN IF settings.kv_soft_kill_mode
                  THEN Outcome_(db, RErr(InvalidRequestData(
                         "Kv cannot be enabled when application is in soft_kill_mode")))
                  ELSE Outcome_(
                         StorageSchemeUpdate(db, merchant_id, "RedisKv"),
                         ROk(ToggleKVResponse(merchant_id, "RedisKv")))
             ELSE Outcome_(StorageSchemeUpdate(db, merchant_id,
                                               "PostgresOnly"),
                           ROk(ToggleKVResponse(merchant_id,
                                                "PostgresOnly")))

toggle_kv_for_all_merchants(db, enable) ==
    LET storage_scheme == IF enable THEN "RedisKv" ELSE "PostgresOnly"
    IN  Outcome_(
          [db EXCEPT !.merchant_account =
              [merchant_id \in DOMAIN @ |->
                  [@[merchant_id] EXCEPT !.storage_scheme = storage_scheme]]],
          ROk([total_updated |-> Cardinality(DOMAIN db.merchant_account),
               kv_enabled |-> enable]))

MerchantInit ==
    /\ store = EmptyStore
    /\ conf = [kv_soft_kill_mode |-> FALSE]
    /\ calls = None
    /\ pc = "admin"
    /\ auth_type = None
    /\ validation = None
    /\ ConnectorIdle
    /\ DomainIdle

\* A call of the merchant's API: the store it leaves, what it answered, and
\* of its request the members the properties read.
RanOn(op, req, outcome) ==
    /\ store' = outcome.store
    /\ calls' = [op |-> op, req |-> req, result |-> outcome.result]
    /\ UNCHANGED <<conf, pc, auth_type, validation, connector_vars,
                   domain_vars>>

CreateMerchantAccount ==
    /\ pc = "admin"
    /\ \E req \in MerchantAccountCreates :
          /\ IsSome(req.organization_id)
                \/ Cardinality(store.organization) < MaxOrganizations
          /\ RanOn("create_merchant_account",
                   [merchant_id |-> req.merchant_id,
                    primary_business_details |->
                       req.primary_business_details],
                   create_merchant_account(store, req))

MerchantAccountDelete ==
    /\ pc = "admin"
    /\ \E merchant_id \in MerchantIds :
          RanOn("merchant_account_delete", merchant_id,
                merchant_account_delete(store, merchant_id))

KvForMerchant ==
    /\ pc = "admin"
    /\ \E merchant_id \in MerchantIds, enable \in BOOLEAN :
          Ran("kv_for_merchant",
              kv_for_merchant(store, conf, merchant_id, enable))

ToggleKvForAllMerchants ==
    /\ pc = "admin"
    /\ \E enable \in BOOLEAN :
          Ran("toggle_kv_for_all_merchants",
              toggle_kv_for_all_merchants(store, enable))

MerchantNext ==
    \/ CreateMerchantAccount
    \/ MerchantAccountDelete

MerchantSpec == MerchantInit /\ [][MerchantNext]_vars

\* The stores the key-value switches start from: what creating the
\* merchants, each with a new organization and the default profile, leaves.
PlainCreate(merchant_id) ==
    [merchant_id |-> merchant_id, organization_id |-> None,
     primary_business_details |-> None, sub_merchants_enabled |-> None,
     parent_merchant_id |-> None]
StoreWithOneMerchant ==
    create_merchant_account(EmptyStore, PlainCreate(TheMerchant)).store
StoreWithTwoMerchants ==
    create_merchant_account(StoreWithOneMerchant,
                            PlainCreate("merchant_2")).store

KvInit ==
    /\ store \in {StoreWithOneMerchant, StoreWithTwoMerchants}
    /\ conf \in [kv_soft_kill_mode : BOOLEAN]
    /\ calls = None
    /\ pc = "admin"
    /\ auth_type = None
    /\ validation = None
    /\ ConnectorIdle
    /\ DomainIdle

KvNext ==
    \/ KvForMerchant
    \/ ToggleKvForAllMerchants
    \/ MerchantAccountDelete

KvSpec == KvInit /\ [][KvNext]_vars

-----------------------------------------------------------------------------
(* Vocabulary of the properties.                                             *)

\* The closed canonical sets of the specification.
CanonicalAttemptStatus ==
    {"Authorized", "AuthorizationFailed", "Charged", "Voided", "Failure",
     "Pending"}
CanonicalRefundStatus == {"Success", "Pending", "Failure"}

\* Flows whose payload carries a BraintreePaymentStatus / BraintreeRefundStatus.
PaymentFlows == {"Authorize", "Charge", "Capture", "Void", "PSync"}
RefundFlows == {"Refund", "RSync"}

Done == pc = "done"
Returned == Unwrap(result)
Succeeded == Done /\ IsSome(Returned.envelope)
Failed == Done /\ IsSome(Returned.error)
Envelope == Unwrap(Returned.envelope)
Errors == Unwrap(response).errors

\* Where each flow's success payload sits in a response (or a body).
NestedPayload(d, f1, f2) ==
    IF d = None THEN None
    ELSE IF d[1][f1] = None THEN None
    ELSE d[1][f1][1][f2]

SearchPayload(d, f2) ==
    IF d = None THEN None
    ELSE IF d[1].search = None THEN None
    ELSE IF d[1].search[1][f2] = None THEN None
    ELSE IF Len(d[1].search[1][f2][1].edges) = 0 THEN None
    ELSE Some(d[1].search[1][f2][1].edges[1].node)

PayloadOf(fl, d) ==
    CASE fl = "Authorize" ->
           NestedPayload(d, "authorize_credit_card", "transaction")
      [] fl = "Charge" -> NestedPayload(d, "charge_credit_card", "transaction")
      [] fl = "Capture" ->
           NestedPayload(d, "capture_transaction", "transaction")
      [] fl = "Void" -> NestedPayload(d, "reverse_transaction", "reversal")
      [] fl = "PSync" -> SearchPayload(d, "transactions")
      [] fl = "Refund" -> NestedPayload(d, "refund_transaction", "refund")
      [] fl = "RSync" -> SearchPayload(d, "refunds")
      [] fl = "Tokenize" ->
           NestedPayload(d, "tokenize_credit_card", "payment_method")

\* The payload of the deserialized response, once serde accepted the body.
Payload == PayloadOf(flow, Unwrap(response).data)
HasPayload == IsSome(Payload)
ConnectorStatus == Unwrap(Payload).status

\* try_from ran on a response without error payload and found the payload
\* of a payment / refund flow.
PaymentNormalized ==
    Done /\ flow \in PaymentFlows /\ ~IsSome(Errors) /\ HasPayload
RefundNormalized ==
    Done /\ flow \in RefundFlows /\ ~IsSome(Errors) /\ HasPayload

\* try_from ran on a response that carries an error list with an entry.
ErrorsReported == Done /\ IsSome(Errors) /\ Len(Unwrap(Errors)) > 0
FirstError == Unwrap(Errors)[1]
FirstLegacyCode ==
    IF IsSome(FirstError.extensions)
    THEN Unwrap(FirstError.extensions).legacy_code
    ELSE None

-----------------------------------------------------------------------------
\* C1 (error precedence): in every flow, a response that carries both a data
\* payload and a non-empty errors list yields Ok(RouterData) whose response
\* is Err(ErrorResponse) built from the first error entry, never the success
\* payload built from data.
C1_ErrorPrecedence ==
    (ErrorsReported /\ IsSome(Unwrap(response).data)) =>
        /\ Succeeded
        /\ Envelope.response.kind = "Err"
        /\ Envelope.response.message = FirstError.message
        /\ Envelope.response.code =
              (IF IsSome(FirstLegacyCode)
               THEN Unwrap(FirstLegacyCode)
               ELSE NO_ERROR_CODE)

\* A capture response with a complete transaction and two errors was parsed
\* into the error of the first entry.
C1_Witness ==
    /\ ErrorsReported
    /\ flow = "Capture"
    /\ HasPayload
    /\ Len(Unwrap(Errors)) = 2
    /\ Unwrap(Errors)[1].message # Unwrap(Errors)[2].message
    /\ Succeeded
    /\ Envelope.response.kind = "Err"
    /\ Envelope.response.message = "msg_2"

\* C2 (exhaustiveness): each of the 13 BraintreePaymentStatus values and of
\* the 5 BraintreeRefundStatus values is normalized, without failure, to one
\* status of the closed canonical set.
C2_Exhaustive ==
    /\ Cardinality(BraintreePaymentStatus) = 13
    /\ Cardinality(BraintreeRefundStatus) = 5
    /\ PaymentNormalized =>
          /\ ConnectorStatus \in BraintreePaymentStatus
          /\ Succeeded
          /\ Envelope.status \in CanonicalAttemptStatus
    /\ RefundNormalized =>
          /\ ConnectorStatus \in BraintreeRefundStatus
          /\ Succeeded
          /\ Envelope.response.kind = "Ok"
          /\ Envelope.response.refund_status \in CanonicalRefundStatus

\* A payment sync found its transaction in SettlementConfirmed and returned
\* an envelope with a canonical status.
C2_Witness ==
    /\ PaymentNormalized
    /\ flow = "PSync"
    /\ ConnectorStatus = "SettlementConfirmed"
    /\ Succeeded
    /\ Envelope.status \in CanonicalAttemptStatus

\* The classification the specification gives, written as the claim words it.
ReferenceAttemptStatus(s) ==
    IF s \in {"Settling", "Settled"} THEN "Charged"
    ELSE IF s = "AuthorizedExpired" THEN "AuthorizationFailed"
    ELSE IF s \in {"Failed", "GatewayRejected", "ProcessorDeclined",
                   "SettlementDeclined"} THEN "Failure"
    ELSE IF s = "Voided" THEN "Voided"
    ELSE IF s = "Authorized" THEN "Authorized"
    ELSE "Pending"

ReferenceRefundStatus(s) ==
    IF s \in {"Settled", "Settling"} THEN "Success"
    ELSE IF s \in {"SubmittedForSettlement", "SettlementPending"}
    THEN "Pending"
    ELSE "Failure"

\* C3 (normalization tables): the status an envelope gets equals the
\* reference classification of the connector status, for payments and for
\* refunds.
C3_TablesMatchReference ==
    /\ PaymentNormalized =>
          Envelope.status = ReferenceAttemptStatus(ConnectorStatus)
    /\ RefundNormalized =>
          Envelope.response.refund_status =
              ReferenceRefundStatus(ConnectorStatus)

\* The settlement scenario: a charge reported as Settled became Charged.
C3_Witness ==
    /\ PaymentNormalized
    /\ flow = "Charge"
    /\ ConnectorStatus = "Settled"
    /\ Envelope.status = "Charged"

ExplicitlyClassified ==
    {"Settling", "Settled", "AuthorizedExpired", "Failed", "GatewayRejected",
     "ProcessorDeclined", "SettlementDeclined", "Authorized", "Voided"}

\* C4 (default-safety): Authorizing, SettlementPending, SettlementConfirmed
\* and SubmittedForSettlement, the payment statuses with no rule of their
\* own, become Pending, and no explicitly classified status does.
C4_DefaultIsPending ==
    /\ BraintreePaymentStatus \ ExplicitlyClassified =
          {"Authorizing", "SettlementPending", "SettlementConfirmed",
           "SubmittedForSettlement"}
    /\ PaymentNormalized =>
          (ConnectorStatus \notin ExplicitlyClassified
              <=> Envelope.status = "Pending")

\* An authorization still Authorizing left the envelope Pending, whatever
\* its status was before.
C4_Witness ==
    /\ PaymentNormalized
    /\ flow = "Authorize"
    /\ ConnectorStatus = "Authorizing"
    /\ data.status = "Started"
    /\ Envelope.status = "Pending"

DeclineGroup ==
    {"Failed", "GatewayRejected", "ProcessorDeclined", "SettlementDeclined"}

\* C7 (expired authorization): AuthorizedExpired, and no other status,
\* becomes AuthorizationFailed; the decline group never does, and
\* AuthorizedExpired never becomes Failure.
C7_ExpiredAuthIsDistinct ==
    PaymentNormalized =>
        /\ ConnectorStatus = "AuthorizedExpired"
              <=> Envelope.status = "AuthorizationFailed"
        /\ ConnectorStatus \in DeclineGroup
              => Envelope.status # "AuthorizationFailed"
        /\ ConnectorStatus = "AuthorizedExpired"
              => Envelope.status # "Failure"

\* A void answered with AuthorizedExpired became AuthorizationFailed.
C7_Witness ==
    /\ PaymentNormalized
    /\ flow = "Void"
    /\ ConnectorStatus = "AuthorizedExpired"
    /\ Envelope.status = "AuthorizationFailed"

\* The body's payload reports a status string that the flow's enum does
\* not declare.
UndeclaredStatusReceived ==
    /\ flow \in PaymentFlows \cup RefundFlows
    /\ IsSome(PayloadOf(flow, body.data))
    /\ Unwrap(PayloadOf(flow, body.data)).status \in UndeclaredStatusStrings

\* C5 (unknown status): a response whose status string is not a declared
\* value is accepted and normalized to Pending; handling it never ends in an
\* error because of the status.
C5_UndeclaredStatusIsPending ==
    (UndeclaredStatusReceived /\ body.errors = None) =>
        /\ pc # "rejected"
        /\ Done =>
              /\ Succeeded
              /\ flow \in PaymentFlows => Envelope.status = "Pending"
              /\ flow \in RefundFlows =>
                    Envelope.response.refund_status = "Pending"

\* C6 (decline scenario): a payment response reporting ProcessorDeclined,
\* with the connector's errors, yields an envelope whose status is Failure
\* and whose response carries the first error's code and message.
C6_DeclineIsFailureWithFirstError ==
    (ErrorsReported /\ flow \in PaymentFlows /\ HasPayload
        /\ ConnectorStatus = "ProcessorDeclined") =>
        /\ Succeeded
        /\ Envelope.status = "Failure"
        /\ Envelope.response.kind = "Err"
        /\ Envelope.response.message = FirstError.message
        /\ Envelope.response.code =
              (IF IsSome(FirstLegacyCode)
               THEN Unwrap(FirstLegacyCode)
               ELSE NO_ERROR_CODE)

\* C8 (first error only): the ErrorResponse of a non-empty error list has
\* the first entry's message, the first entry's legacy_code as code, no
\* reason and the transport's http_code as status_code; it has no other
\* field, so later entries change nothing.
C8_FirstErrorOnly ==
    ErrorsReported =>
        /\ Succeeded
        /\ DOMAIN Envelope.response =
              {"kind", "code", "message", "reason", "status_code"}
        /\ Envelope.response.kind = "Err"
        /\ Envelope.response.message = FirstError.message
        /\ IsSome(FirstLegacyCode) =>
              Envelope.response.code = Unwrap(FirstLegacyCode)
        /\ Envelope.response.reason = None
        /\ Envelope.response.status_code = http_code

\* A refund answered 422 with two errors: the second entry has a legacy code
\* and another message, the ErrorResponse has the first entry's.
C8_Witness ==
    /\ ErrorsReported
    /\ flow = "Refund"
    /\ http_code = 422
    /\ Len(Unwrap(Errors)) = 2
    /\ FirstError.message = "msg_1"
    /\ IsSome(FirstLegacyCode)
    /\ Unwrap(Errors)[2].message = "msg_2"
    /\ Unwrap(Errors)[2].extensions = None
    /\ Envelope.response.message = "msg_1"
    /\ Envelope.response.code = "2000"
    /\ Envelope.response.status_code = 422

\* try_from ran on a response whose errors member is present.
ErrorPath == Done /\ IsSome(Errors)

\* C9 (sentinels): every ErrorResponse has a code and a message; the code is
\* NO_ERROR_CODE when the first entry has no extensions or no legacy_code,
\* and an empty error list gives NO_ERROR_MESSAGE with NO_ERROR_CODE.
C9_CodeAndMessagePresent ==
    ErrorPath =>
        /\ Succeeded
        /\ Envelope.response.kind = "Err"
        /\ Envelope.response.code \in LegacyCodes \cup {NO_ERROR_CODE}
        /\ Envelope.response.message \in Messages \cup {NO_ERROR_MESSAGE}
        /\ (Len(Unwrap(Errors)) > 0 /\ ~IsSome(FirstLegacyCode)) =>
              Envelope.response.code = NO_ERROR_CODE
        /\ Len(Unwrap(Errors)) = 0 =>
              /\ Envelope.response.code = NO_ERROR_CODE
              /\ Envelope.response.message = NO_ERROR_MESSAGE

\* A tokenize response with "errors": [] got both sentinels.
C9_Witness ==
    /\ ErrorPath
    /\ flow = "Tokenize"
    /\ Len(Unwrap(Errors)) = 0
    /\ Envelope.response.message = NO_ERROR_MESSAGE
    /\ Envelope.response.code = NO_ERROR_CODE

Occurrences(seq, x) == Cardinality({i \in DOMAIN seq : seq[i] = x})
Range(seq) == {seq[i] : i \in DOMAIN seq}

\* What C10 and its amendment share: try_from returns nothing before it
\* ends; it ends with an error and no RouterData, no field written, or with
\* a RouterData and no error; response is then written once, as the last
\* field, and a written status comes with a written response.
AtomicParse ==
    /\ ~Done => result = None
    /\ Done => IsSome(Returned.envelope) # IsSome(Returned.error)
    /\ Failed => Returned.assigned = <<>>
    /\ Succeeded =>
          /\ Returned.assigned # <<>>
          /\ Returned.assigned[Len(Returned.assigned)] = "response"
          /\ Occurrences(Returned.assigned, "response") = 1
          /\ Envelope.response.kind \in {"Ok", "Err"}
          /\ "status" \notin Range(Returned.assigned) =>
                Envelope.status = data.status

ParsedAgain == Done /\ data.response # ResponseUnset

\* C11 as stated (write-once): a response that a parser has set is still
\* the envelope's response after any further parse of that envelope, and
\* parsing leaves request as it was.
C11_ResponseWriteOnce ==
    Succeeded =>
        /\ Envelope.request = data.request
        /\ ParsedAgain => Envelope.response = data.response

\* C11 amended: every parse writes response exactly once on the RouterData
\* it returns, from the connector's response alone and whatever response
\* that RouterData held before, and it leaves request, connector_auth_type
\* and connector_meta_data as they were.
C11_RequestUntouched ==
    Succeeded =>
        /\ Envelope.request = data.request
        /\ Envelope.connector_auth_type = data.connector_auth_type
        /\ Envelope.connector_meta_data = data.connector_meta_data
        /\ Occurrences(Returned.assigned, "response") = 1
        /\ Envelope.response # ResponseUnset
        /\ Envelope.response.kind = "Err" <=> IsSome(Errors)

\* A refund RouterData holding the Ok response of a first parse was parsed
\* again with an errors payload: its response is now the ErrorResponse, its
\* request the one it had.
C11_Witness ==
    /\ ParsedAgain
    /\ flow = "Refund"
    /\ data.response.kind = "Ok"
    /\ Succeeded
    /\ Envelope.response.kind = "Err"
    /\ Envelope.request = data.request

SyncFlows == {"PSync", "RSync"}
MutationFlows ==
    {"Authorize", "Charge", "Capture", "Void", "Refund", "Tokenize"}

\* data.search.transactions / data.search.refunds of a sync response: the
\* container of the edges, None when data, search or the container is
\* absent.
SearchResult ==
    LET d == Unwrap(response).data
        f2 == IF flow = "PSync" THEN "transactions" ELSE "refunds"
    IN  IF d = None THEN None
        ELSE IF d[1].search = None THEN None
        ELSE d[1].search[1][f2]

\* try_from ran on a sync response without errors member.
SyncParsed == Done /\ flow \in SyncFlows /\ ~IsSome(Errors)

NotFound ==
    IF flow = "PSync"
    THEN MissingConnectorTransactionID
    ELSE MissingConnectorRefundID

\* C15 (empty lookup): a sync response without error payload fails with the
\* flow's not-found error (MissingConnectorTransactionID for payment sync,
\* MissingConnectorRefundID for refund sync) when its result has zero
\* edges, and with ResponseDeserializationFailed when data, search or the
\* result container is absent.
C15_EmptyLookupIsNotFound ==
    SyncParsed =>
        /\ ~IsSome(SearchResult) =>
              /\ Failed
              /\ Returned.error = Some(ResponseDeserializationFailed)
        /\ (IsSome(SearchResult) /\ Len(Unwrap(SearchResult).edges) = 0) =>
              /\ Failed
              /\ Returned.error = Some(NotFound)
              /\ Returned.error # Some(ResponseDeserializationFailed)

\* A refund sync answered {"data": {"search": {"refunds": {"edges": []}}}}
\* failed with MissingConnectorRefundID.
C15_Witness ==
    /\ SyncParsed
    /\ flow = "RSync"
    /\ IsSome(SearchResult)
    /\ Len(Unwrap(SearchResult).edges) = 0
    /\ Failed
    /\ Returned.error = Some(MissingConnectorRefundID)

\* C16 (absent nested field): in the six mutation flows, a response without
\* error payload in which data, the per-mutation object or the
\* transaction / refund / payment-method object is absent fails with
\* ResponseDeserializationFailed and with no other error.
C16_AbsentFieldIsDeserializationFailed ==
    (Done /\ flow \in MutationFlows /\ ~IsSome(Errors) /\ ~HasPayload) =>
        /\ Failed
        /\ Returned.error = Some(ResponseDeserializationFailed)

\* The value of the public model, the canonical value it was converted to
\* and the category get_payment_method gave for it.
ApiModel == payment_method_data.api_model
Converted == pc \in {"domain", "classified"}
Domain == Unwrap(payment_method_data.domain)
Classified == pc = "classified"
Category == Unwrap(category)

\* C18 (category of a variant): get_payment_method returns the category
\* named like the variant, and None exactly for CardToken and
\* MandatePayment; Reward, which has no payload either, gives
\* Some(Reward).
C18_CategoryNamedLikeVariant ==
    Classified =>
        /\ Domain.variant \in PaymentMethodDataVariants
        /\ Category = None <=> Domain.variant \in {"CardToken", "MandatePayment"}
        /\ Category # None => Unwrap(Category) = Domain.variant
        /\ Domain.variant = "Reward" => Category = Some("Reward")

\* A Reward value was classified as Some(Reward).
C18_Witness ==
    /\ Classified
    /\ Domain.variant = "Reward"
    /\ Domain.sub = None
    /\ Category = Some("Reward")

\* C19 (conversion keeps the variant): every value of the public model,
\* the six convenience-store vouchers included, converts to the canonical
\* value of its own variant and payload variant, so values of different
\* variants never convert to the same canonical variant.
C19_OwnCanonicalVariant ==
    Converted =>
        /\ Domain.variant = ApiModel.variant
        /\ Domain.sub = ApiModel.sub

\* A request builder returned: with a wire request, or with an error.
BuildDone == pc = "built"
Outcome == Unwrap(result)
Produced == BuildDone /\ IsSome(Outcome.request)
Refusal == Unwrap(Outcome.error)
Request == Unwrap(Outcome.request)

\* C12 (wire template): the request built for an operation without
\* auto-capture has the authorizeCreditCard mutation and never the
\* ChargeCreditCard mutation, and the request built for an auto-capture
\* operation has the ChargeCreditCard mutation.
C12_QueryFollowsAutoCapture ==
    (Produced /\ flow = "Authorize") =>
        /\ AuthorizeCreditCardQuery # ChargeCreditCardQuery
        /\ Request.query \in {AuthorizeCreditCardQuery, ChargeCreditCardQuery}
        /\ is_auto_capture(data.request) = ROk(FALSE) =>
              Request.query = AuthorizeCreditCardQuery
        /\ is_auto_capture(data.request) = ROk(TRUE) =>
              Request.query = ChargeCreditCardQuery

\* An authorization with manual capture was built with the
\* authorizeCreditCard mutation.
C12_Witness ==
    /\ Produced
    /\ flow = "Authorize"
    /\ data.request.capture_method = Some("Manual")
    /\ Request.query = AuthorizeCreditCardQuery

\* connector_meta_data is missing, or is an object without
\* merchant_account_id.
AccountMissing ==
    \/ data.connector_meta_data = None
    \/ /\ Unwrap(data.connector_meta_data) \in MetaObjects
       /\ Unwrap(data.connector_meta_data).merchant_account_id = None

\* The steps a builder evaluates before it reads merchant_account_id all
\* succeed.
EarlierStepsPass ==
    LET metadata == to_connector_meta_from_secret(data.connector_meta_data)
    IN  /\ metadata.ok
        /\ validate_currency(data.request.currency,
                             metadata.value.merchant_config_currency).ok
        /\ flow = "Authorize" =>
              /\ is_auto_capture(data.request).ok
              /\ get_payment_method_token(data).ok

\* The merchant account identifier a request carries, if it carries one.
CarriedAccount ==
    LET input == Request.variables.input
    IN  IF "transaction" \in DOMAIN input
              /\ "merchant_account_id" \in DOMAIN input.transaction
        THEN Some(input.transaction.merchant_account_id)
        ELSE IF "refund" \in DOMAIN input
        THEN Some(input.refund.merchant_account_id)
        ELSE None

AccountFlows == {"Authorize", "Refund"}

\* C13 as stated, for a RouterData that passes the steps made before the
\* account is read: without merchant_account_id the authorize and the
\* refund builder fail with MissingRequiredField {merchant_account_id},
\* and no request they produce has a null or empty merchant account id.
C13_NoNullOrEmptyAccount ==
    (BuildDone /\ flow \in AccountFlows) =>
        /\ (AccountMissing /\ EarlierStepsPass) =>
              /\ ~Produced
              /\ Refusal = MissingRequiredField("merchant_account_id")
        /\ Produced =>
              /\ IsSome(CarriedAccount)
              /\ Unwrap(CarriedAccount) # ""

\* C13 amended: without merchant_account_id the authorize and the refund
\* builder produce no request, and fail with MissingRequiredField
\* {merchant_account_id} once the steps before it have passed; a request
\* they produce carries the stored merchant_account_id as it is, the empty
\* string included.
C13_NoNullAccount ==
    (BuildDone /\ flow \in AccountFlows) =>
        /\ AccountMissing => ~Produced
        /\ (AccountMissing /\ EarlierStepsPass) =>
              Refusal = MissingRequiredField("merchant_account_id")
        /\ Produced =>
              CarriedAccount =
                  Unwrap(data.connector_meta_data).merchant_account_id

\* An authorization whose connector_meta_data names a currency but no
\* merchant_account_id was refused with MissingRequiredField.
C13_Witness ==
    /\ BuildDone
    /\ flow = "Authorize"
    /\ data.connector_meta_data =
          Some([merchant_account_id |-> None,
                merchant_config_currency |-> Some("USD")])
    /\ EarlierStepsPass
    /\ ~Produced
    /\ Refusal = MissingRequiredField("merchant_account_id")

\* The strings of the generic credential.
AuthStrings ==
    {data.connector_auth_type.api_key, data.connector_auth_type.key1,
     data.connector_auth_type.api_secret}

\* C14 as stated: every mutation request that is built carries the
\* processor account identifier, which is the merchant_account_id of
\* connector_meta_data and no string of connector_auth_type.
C14_EveryMutationCarriesAccount ==
    Produced =>
        /\ IsSome(CarriedAccount)
        /\ CarriedAccount =
              Unwrap(data.connector_meta_data).merchant_account_id
        /\ Unwrap(CarriedAccount) \notin AuthStrings

\* C14 amended: the authorize, charge and refund requests carry the
\* account identifier, which is the merchant_account_id of
\* connector_meta_data and no string of connector_auth_type; the capture,
\* void and tokenize requests carry no account identifier.
C14_AccountFromMetaData ==
    Produced =>
        /\ flow \in AccountFlows =>
              /\ IsSome(CarriedAccount)
              /\ CarriedAccount =
                    Unwrap(data.connector_meta_data).merchant_account_id
              /\ Unwrap(CarriedAccount) \notin AuthStrings
        /\ flow \notin AccountFlows => CarriedAccount = None

\* A refund request was built with the account acct_1 of its
\* connector_meta_data.
C14_Witness ==
    /\ Produced
    /\ flow = "Refund"
    /\ Unwrap(data.connector_meta_data).merchant_account_id = Some("acct_1")
    /\ Request.variables.input.refund.merchant_account_id = "acct_1"
    /\ data.connector_auth_type.key1 = AuthKeyId

\* C17 (tokenization): the tokenization builder produces a request for the
\* Card variant and for no other; for every other variant it fails with
\* NotImplemented.
C17_TokenizeOnlyCard ==
    (BuildDone /\ flow = "Tokenize") =>
        /\ Produced <=> data.request.payment_method_data.variant = "Card"
        /\ ~Produced =>
              /\ Outcome.request = None
              /\ Refusal.kind = "NotImplemented"

\* Tokenizing a wallet was refused with NotImplemented.
C17_Witness ==
    /\ BuildDone
    /\ flow = "Tokenize"
    /\ data.request.payment_method_data.variant = "Wallet"
    /\ ~Produced
    /\ Refusal = NotImplemented("Payment Method")

\* validate_connector_auth_type has returned.
Validated == pc = "validated"

\* The string credential fields of a variant, in declaration order.
CredentialFields(variant) ==
    CASE variant = "HeaderKey" -> <<"api_key">>
      [] variant = "BodyKey" -> <<"api_key", "key1">>
      [] variant = "SignatureKey" -> <<"api_key", "key1", "api_secret">>
      [] variant = "MultiAuthKey" ->
            <<"api_key", "key1", "api_secret", "key2">>
      [] OTHER -> <<>>

KeyVariants == {"HeaderKey", "BodyKey", "SignatureKey", "MultiAuthKey"}

\* Nothing but whitespace: empty after trimming.
Blank(s) == \A i \in 1..Len(s) : s[i] \in Whitespace

BlankFields ==
    {i \in 1..Len(CredentialFields(auth_type.variant)) :
        Blank(auth_type[CredentialFields(auth_type.variant)[i]])}

FirstBlankField ==
    CredentialFields(auth_type.variant)[
        CHOOSE i \in BlankFields : \A j \in BlankFields : i <= j]

Accepted == validation.ok

Rejected == ~validation.ok

\* C20: validate_connector_auth_type rejects a key variant whenever one
\* of its string credential fields is empty after trimming, naming the
\* first such field in declaration order, and accepts it exactly when
\* all of them are non-empty after trimming; it rejects a
\* CurrencyAuthKey whose map is empty, and accepts NoKey and
\* TemporaryAuth unconditionally.
C20_CredentialsValidated ==
    Validated =>
        /\ auth_type.variant \in KeyVariants =>
              IF BlankFields # {}
              THEN /\ Rejected
                   /\ validation.error.error = "InvalidDataFormat"
                   /\ validation.error.field_name =
                         "connector_account_details." \o FirstBlankField
              ELSE Accepted
        /\ (auth_type.variant = "CurrencyAuthKey"
              /\ DOMAIN auth_type.auth_key_map = {}) => Rejected
        /\ auth_type.variant \in {"NoKey", "TemporaryAuth"} => Accepted

\* A MultiAuthKey whose second field is a blank and whose third is empty
\* was rejected, naming key1.
C20_Witness ==
    /\ Validated
    /\ auth_type.variant = "MultiAuthKey"
    /\ auth_type.api_key = <<"k">>
    /\ auth_type.key1 = <<" ">>
    /\ auth_type.api_secret = <<>>
    /\ Rejected
    /\ validation.error.field_name = "connector_account_details.key1"

\* The fields of the RouterData that no parser may touch.
FrameFields == DOMAIN data \ {"status", "response"}

\* C26: the RouterData a parser returns differs from the one it was given
\* at most in status and response on the success path, and in response
\* alone on the connector-error path (status keeps its prior value);
\* request, connector_auth_type, connector_meta_data and every other
\* field are unchanged.
C26_ParseFrame ==
    Succeeded =>
        /\ DOMAIN Envelope = DOMAIN data
        /\ \A field \in FrameFields : Envelope[field] = data[field]
        /\ Range(Returned.assigned) \subseteq {"status", "response"}
        /\ IsSome(Errors) =>
              /\ Envelope.status = data.status
              /\ Returned.assigned = <<"response">>

\* A charge answered with an errors payload: the returned RouterData has
\* the ErrorResponse and the status, request and credentials it came with.
C26_Witness ==
    /\ Succeeded
    /\ flow = "Charge"
    /\ IsSome(Errors)
    /\ data.status = "Pending"
    /\ Envelope.status = "Pending"
    /\ Envelope.response.kind = "Err"
    /\ Envelope.connector_auth_type = data.connector_auth_type

\* The parser of each flow, as handle_response picks it.
HandleResponse(fl, item) ==
    CASE fl = "Authorize" -> TryFromBraintreeAuthResponse(item)
      [] fl = "Charge" -> TryFromBraintreePaymentsResponse(item)
      [] fl = "Capture" -> TryFromBraintreeCaptureResponse(item)
      [] fl = "Void" -> TryFromBraintreeCancelResponse(item)
      [] fl = "PSync" -> TryFromBraintreePSyncResponse(item)
      [] fl = "Refund" -> TryFromBraintreeRefundResponse(item)
      [] fl = "RSync" -> TryFromBraintreeRSyncResponse(item)
      [] fl = "Tokenize" -> TryFromBraintreeTokenResponse(item)

\* The RouterData, had it carried other credentials or other card data.
SecretVariants(router_data) ==
    {[router_data EXCEPT !.connector_auth_type = auth, !.request = request] :
        auth \in {router_data.connector_auth_type, "other_auth"},
        request \in {router_data.request, "other_request"}}

\* The raw secrets a RouterData handed to a builder holds.
CardSecrets(request) ==
    IF "payment_method_data" \in DOMAIN request
       /\ IsSome(request.payment_method_data.card)
    THEN {Unwrap(request.payment_method_data.card).card_number,
          Unwrap(request.payment_method_data.card).card_cvc}
    ELSE {}

Secrets ==
    CardSecrets(data.request)
      \cup {data.connector_auth_type.api_key,
            data.connector_auth_type.api_secret}

\* The texts the connector sent in its errors payload.
WireTexts ==
    {Unwrap(Errors)[i].message : i \in DOMAIN Unwrap(Errors)}
      \cup {Unwrap(Unwrap(Errors)[i].extensions).legacy_code[1] :
              i \in {j \in DOMAIN Unwrap(Errors) :
                       /\ IsSome(Unwrap(Errors)[j].extensions)
                       /\ IsSome(Unwrap(Unwrap(Errors)[j].extensions).legacy_code)}}

\* C22: the ErrorResponse a parser writes is made of the connector's
\* errors payload, the two sentinels and the HTTP status alone, so it is
\* the same for RouterDatas that differ only in connector_auth_type or
\* in the request's card data; and the Debug rendering of a built wire
\* request shows no raw card number, CVC or API key.
C22_Secrecy ==
    /\ (Succeeded /\ IsSome(Errors)) =>
          /\ \A other \in SecretVariants(data) :
                Unwrap(HandleResponse(flow, [Item EXCEPT !.data = other])
                          .envelope).response = Envelope.response
          /\ Envelope.response.code \in WireTexts \cup {NO_ERROR_CODE}
          /\ Envelope.response.message \in WireTexts \cup {NO_ERROR_MESSAGE}
          /\ Envelope.response.reason = None
          /\ Envelope.response.status_code = http_code
    /\ Produced =>
          \A leaf \in DOMAIN DebugRendering(flow, Request) :
              DebugRendering(flow, Request)[leaf] \notin Secrets

\* A tokenize request was built from a card: its rendering shows the
\* query, and the wrappers in place of the card number and the CVC the
\* request holds.
C22_Witness ==
    /\ Produced
    /\ flow = "Tokenize"
    /\ Request.variables.input.credit_card.cvv = "123"
    /\ "123" \in Secrets
    /\ DebugRendering(flow, Request).cvv = "*** Secret<String> ***"
    /\ DebugRendering(flow, Request).number = "*** cards::CardNumber ***"
    /\ DebugRendering(flow, Request).query = TokenizeCreditCardQuery

\* The stored merchant connector accounts.
StoredAccounts ==
    {store.merchant_connector_account[id] :
        id \in DOMAIN store.merchant_connector_account}

LastCall(op) == calls # None /\ calls.op = op

LastCallSucceeded(op) == LastCall(op) /\ calls.result.ok

TemporaryAuth == [variant |-> "TemporaryAuth"]

\* C21: validate_status_and_disabled rejects status Active with
\* TemporaryAuth and turns a missing status into Inactive for
\* TemporaryAuth, and after any sequence of create_payment_connector and
\* update_payment_connector calls no stored merchant connector account has
\* TemporaryAuth credentials together with status Active.
C21_TemporaryAuthNeverActive ==
    /\ \A disabled \in Opt(BOOLEAN), current_status \in ConnectorStatuses :
          /\ ~validate_status_and_disabled(Some("Active"), disabled,
                                           TemporaryAuth, current_status).ok
          /\ LET defaulted ==
                     validate_status_and_disabled(None, disabled,
                                                  TemporaryAuth,
                                                  current_status)
             IN  defaulted.ok => defaulted.value.status = "Inactive"
    /\ \A account \in StoredAccounts :
          account.connector_account_details = TemporaryAuth
              => account.status # "Active"

\* An update has just succeeded and a stored account holds TemporaryAuth
\* credentials: it is Inactive.
C21_Witness ==
    /\ LastCallSucceeded("update_payment_connector")
    /\ calls.result.value.status = "Inactive"
    /\ \E account \in StoredAccounts :
          /\ account.merchant_connector_id
                = calls.result.value.merchant_connector_id
          /\ account.connector_account_details = TemporaryAuth
          /\ account.status = "Inactive"

\* C27: validate_status_and_disabled never returns (Inactive, Some(false))
\* and returns disabled = Some(true) whenever the status it returns is
\* Inactive, and after any sequence of create_payment_connector and
\* update_payment_connector calls every stored merchant connector account
\* with status Inactive has disabled = true.
C27_InactiveIsDisabled ==
    /\ \A status \in Opt(ConnectorStatuses), disabled \in Opt(BOOLEAN),
          auth \in AccountDetails, current_status \in ConnectorStatuses :
          LET returned ==
                  validate_status_and_disabled(status, disabled, auth,
                                               current_status)
          IN  (returned.ok /\ returned.value.status = "Inactive")
                  => returned.value.disabled = Some(TRUE)
    /\ \A account \in StoredAccounts :
          account.status = "Inactive" => account.disabled = Some(TRUE)

\* A create has just stored an Inactive account with real credentials: it
\* is disabled.
C27_Witness ==
    /\ LastCallSucceeded("create_payment_connector")
    /\ \E account \in StoredAccounts :
          /\ account.merchant_connector_id
                = calls.result.value.merchant_connector_id
          /\ account.connector_account_details.variant = "HeaderKey"
          /\ account.status = "Inactive"
          /\ account.disabled = Some(TRUE)

\* The merchant_connector_ids the default routing configs refer to.
RoutedAccountIds ==
    UNION {{Unwrap(store.default_config[key][i].merchant_connector_id) :
              i \in DOMAIN store.default_config[key]} :
           key \in DOMAIN store.default_config}

\* C30: after any sequence of create_payment_connector and
\* delete_payment_connector calls, every merchant_connector_id that a
\* choice of a merchant's or profile's default routing config refers to
\* identifies a merchant connector account that still exists.
C30_RoutedAccountsExist ==
    RoutedAccountIds \subseteq DOMAIN store.merchant_connector_account

\* Both concurrent calls have returned Ok for a routable connector.
BothCreated ==
    \A p \in Procs :
        /\ calls[p].at = "done"
        /\ Unwrap(calls[p].result).ok
        /\ calls[p].req.connector_name \in RoutableConnectors

ChoiceOf(p) == RoutableConnectorChoice(Unwrap(calls[p].row))

\* C28: when two concurrent create_payment_connector calls for the same
\* merchant and profile have both succeeded with routable connectors, the
\* merchant's and the profile's default routing configs contain the
\* choices of both new accounts, each once.
C28_BothChoicesKept ==
    BothCreated =>
        \A key \in {TheMerchant, TheProfile.profile_id}, p \in Procs :
            /\ key \in DOMAIN store.default_config
            /\ Occurrences(store.default_config[key], ChoiceOf(p)) = 1

\* C25: while soft-kill mode is on, no admin operation (kv_for_merchant or
\* toggle_kv_for_all_merchants) changes a merchant's storage scheme from
\* PostgresOnly to RedisKv, and a kv_for_merchant(enable = true) that was
\* rejected leaves every merchant's storage scheme as it was.
SoftKillRejected ==
    /\ calls' # None
    /\ calls'.op = "kv_for_merchant"
    /\ ~calls'.result.ok
    /\ calls'.result.error = InvalidRequestData(
          "Kv cannot be enabled when application is in soft_kill_mode")
C25_NoKvUnderSoftKill ==
    [][/\ conf.kv_soft_kill_mode =>
            \A merchant_id \in DOMAIN store.merchant_account
                                 \cap DOMAIN store'.merchant_account :
               store.merchant_account[merchant_id].storage_scheme
                    = "PostgresOnly"
               => store'.merchant_account[merchant_id].storage_scheme
                    # "RedisKv"
       /\ SoftKillRejected => store'.merchant_account = store.merchant_account
      ]_vars

\* C29: a create_merchant_account call that fails with
\* DuplicateMerchantAccount leaves the store unchanged: no organization,
\* business profile, key store, merchant account or merchant config exists
\* after the call that did not exist before it.
FailedAsDuplicate ==
    /\ calls' # None
    /\ calls'.op = "create_merchant_account"
    /\ ~calls'.result.ok
    /\ calls'.result.error = DuplicateMerchantAccount
C29_DuplicateLeavesStoreUnchanged ==
    [][FailedAsDuplicate =>
          /\ store'.organization \subseteq store.organization
          /\ store'.business_profile \subseteq store.business_profile
          /\ store'.merchant_key_store \subseteq store.merchant_key_store
          /\ DOMAIN store'.merchant_account
                \subseteq DOMAIN store.merchant_account
          /\ store'.configs \subseteq store.configs]_vars

\* C24: a successful create_merchant_account sets the default business
\* profile as documented. With primary_business_details absent or empty,
\* one default business profile is created and the merchant's
\* default_profile is its id; with business details, default_profile is set
\* if and only if exactly one business profile was created by the call, and
\* it is then that profile's id.
MerchantCreated ==
    /\ calls' # None
    /\ calls'.op = "create_merchant_account"
    /\ calls'.result.ok
DeleteOfExisting ==
    /\ calls' # None
    /\ calls'.op = "merchant_account_delete"
    /\ calls'.req \in DOMAIN store.merchant_account
C23_CreateThenDelete ==
    [][/\ MerchantCreated =>
            calls'.result.value.merchant_id = calls'.req.merchant_id
       /\ DeleteOfExisting =>
            /\ calls'.result.ok
            /\ calls'.result.value
                  = [merchant_id |-> calls'.req, deleted |-> TRUE]
            /\ calls'.req \notin DOMAIN store'.merchant_account
            /\ calls'.req \notin store'.merchant_key_store
      ]_vars
\* A merchant account that had been created was deleted.
C23_Witness ==
    /\ calls # None
    /\ calls.op = "merchant_account_delete"
    /\ calls.result.ok
    /\ calls.result.value.deleted
    /\ calls.req \notin DOMAIN store.merchant_account
    /\ \E profile \in store.business_profile :
          profile.merchant_id = calls.req

=============================================================================
